---- MODULE Spec2Model ----
(***************************************************************************)
(* Model of the forum moderation bot: the duplicate-link engine            *)
(* (UrlTracker.handleUrlMessage), the delayed URL check of the             *)
(* messageCreate handler, the link store (UrlStorage), the                 *)
(* "!fetch links" command and the thread name cache.                       *)
(*                                                                         *)
(* Time is counted in ticks of one hour, the THREAD_CACHE_TTL.  The two    *)
(* environment settings are taken as URL_CHECK_TIMEOUT = one tick and      *)
(* THRESHOLD_DUPE_AGE = two ticks, which keeps the order delay < threshold *)
(* of their defaults.  The router specification (SpecRouter) counts the   *)
(* clock in ticks of half a second: RATE_LIMIT_COOLDOWN, 1000 ms, is two   *)
(* ticks there, and AUTO_DELETE_TIMER is TicksPerSecond times the number   *)
(* of seconds the environment sets.                                        *)
(***************************************************************************)
EXTENDS Integers, Sequences, FiniteSets, TLC

VARIABLES
    now,              \* Date.now(), in ticks
    isInitialized,    \* UrlStorage.isInitialized
    urls,             \* UrlStorage.urls: the Map, as a sequence of entries in key insertion order
    messages,         \* the forum messages with links, each with the state of its delayed check
    commands,         \* the number of "!fetch links" commands handled so far
    threadNameCache,  \* threadNameCache: threadId -> entry
    handlers,         \* message handlers that use the thread name cache
    lastSweep,        \* what the latest run of the cache cleanup did
    autoDeleteEnv,    \* parseInt(process.env.AUTO_DELETE_TIMER)
    rateLimitMap,     \* rateLimitMap: userId -> time of the last accepted call
    routing,          \* per handler, the message it routes and how far it got
    notices,          \* the correction notices posted by handleWrongThread
    posted,           \* the number of forum messages handed to the router so far
    storageFile,      \* the document data/urls.json of UrlStorage
    cmds,             \* the "!fetch links" commands, each with the state of its handler
    proc,             \* the process: starting, serving or exited, and the fatal events seen
    flatStore         \* the object of the class UrlStore: initialized and data.urls

vars == <<now, isInitialized, urls, messages, commands, threadNameCache, handlers, lastSweep,
          autoDeleteEnv, rateLimitMap, routing, notices, posted, storageFile, cmds, proc, flatStore>>

storeVars == <<isInitialized, urls, messages, commands>>
cacheVars == <<threadNameCache, handlers, lastSweep>>
routerVars == <<autoDeleteEnv, rateLimitMap, routing, notices, posted>>
ioVars == <<storageFile, cmds, proc, flatStore>>

(***************************************************************************)
(* Bounds of the model.                                                    *)
(***************************************************************************)
MaxTime == 2
MaxMsgs == 2
MaxCommands == 1
MaxHandlers == 2
MaxRouterTime == 4
MaxPosts == 2
MaxRecords == 2

(***************************************************************************)
(* Configuration.                                                          *)
(***************************************************************************)
URL_CHECK_TIMEOUT == 1
THRESHOLD_DUPE_AGE == 2
THREAD_CACHE_TTL == 1

\* process.env.BOTANIX_TWITTER, as a sequence of characters
BOTANIX_TWITTER == <<" ", "T">>

Undefined == "undefined"
MAIN_CHANNEL_ID == "forum"
Threads == {"c1", "c2"}
Authors == {"A", "B"}

\* The links users post, as sequences of characters.
U1 == <<"a">>
U2 == <<"b">>
UT == <<"a", "t">>
Contents == {<<U1>>, <<U2, U1>>, <<U1, UT>>}

(***************************************************************************)
(* String helpers: String.prototype.trim, toLowerCase, includes.           *)
(***************************************************************************)
RECURSIVE TrimStart(_)
TrimStart(s) == IF s # <<>> /\ Head(s) = " " THEN TrimStart(Tail(s)) ELSE s

RECURSIVE TrimEnd(_)
TrimEnd(s) == IF s # <<>> /\ s[Len(s)] = " " THEN TrimEnd(SubSeq(s, 1, Len(s) - 1)) ELSE s

Trim(s) == TrimEnd(TrimStart(s))

LowerChar(c) == CASE c = "A" -> "a" [] c = "B" -> "b" [] c = "T" -> "t" [] OTHER -> c

ToLowerCase(s) == [j \in 1..Len(s) |-> LowerChar(s[j])]

Includes(s, sub) ==
    \E k \in 0..(Len(s) - Len(sub)) : \A j \in 1..Len(sub) : s[k + j] = sub[j]

(***************************************************************************)
(* UrlStorage: the Map of channel id -> list of records.                   *)
(***************************************************************************)
MapHas(m, k) == \E j \in 1..Len(m) : m[j].id = k

MapGet(m, k) ==
    IF MapHas(m, k) THEN m[CHOOSE j \in 1..Len(m) : m[j].id = k].list ELSE <<>>
\* a set that keeps no other key
MapSetAlone(m, k, v) == <<[id |-> k, list |-> v]>>

MapSet(m, k, v) ==
    IF MapHas(m, k)
    THEN [j \in 1..Len(m) |-> IF m[j].id = k THEN [id |-> k, list |-> v] ELSE m[j]]
    ELSE Append(m, [id |-> k, list |-> v])

HasUrl(list, url) == \E j \in 1..Len(list) : list[j].url = url

\* saveUrls, lines 41-45: push every new record whose URL the list lacks
RECURSIVE MergeUrls(_, _)
MergeUrls(updatedUrls, newUrls) ==
    IF newUrls = <<>> THEN updatedUrls
    ELSE MergeUrls(IF HasUrl(updatedUrls, Head(newUrls).url)
                   THEN updatedUrls
                   ELSE Append(updatedUrls, Head(newUrls)),
                   Tail(newUrls))
\* a comparator that puts the oldest first whatever is asked
SortsBeforeOldestFirst(a, b, newestFirst) == a.timestamp < b.timestamp

\* The comparators (a, b) => b.timestamp - a.timestamp and a.timestamp - b.timestamp
SortsBefore(a, b, newestFirst) ==
    IF newestFirst THEN a.timestamp > b.timestamp ELSE a.timestamp < b.timestamp

\* Array.prototype.sort is stable: r goes in front of the first record it sorts before
RECURSIVE InsertSorted(_, _, _)
InsertSorted(sorted, r, newestFirst) ==
    IF sorted = <<>> THEN <<r>>
    ELSE IF SortsBefore(r, Head(sorted), newestFirst) THEN <<r>> \o sorted
    ELSE <<Head(sorted)>> \o InsertSorted(Tail(sorted), r, newestFirst)

RECURSIVE StableSort(_, _)
StableSort(list, newestFirst) ==
    IF list = <<>> THEN <<>>
    ELSE InsertSorted(StableSort(SubSeq(list, 1, Len(list) - 1), newestFirst),
                      list[Len(list)], newestFirst)

\* saveUrls, lines 38-48: the in-memory part
saveUrls(m, channelId, newUrls) ==
    MapSet(m, channelId, StableSort(MergeUrls(MapGet(m, channelId), newUrls), TRUE))

\* findUrlHistory: the first match in the first channel, in key order, that holds the URL;
\* <<>> stands for null
RECURSIVE FindInList(_, _)
FindInList(list, url) ==
    IF list = <<>> THEN <<>>
    ELSE IF Head(list).url = url THEN <<Head(list)>>
    ELSE FindInList(Tail(list), url)

RECURSIVE FindInMap(_, _)
FindInMap(m, url) ==
    IF m = <<>> THEN <<>>
    ELSE IF FindInList(Head(m).list, url) # <<>> THEN FindInList(Head(m).list, url)
    ELSE FindInMap(Tail(m), url)
\* a lookup that walks the channels from the last one inserted to the first
findUrlHistoryLastChannel(initialized, m, url) ==
    IF initialized THEN FindInMap([j \in 1..Len(m) |-> m[Len(m) + 1 - j]], url) ELSE <<>>

findUrlHistory(initialized, m, url) == IF initialized THEN FindInMap(m, url) ELSE <<>>

\* getUrls, lines 105-111
getUrls(initialized, m, channelId) == IF initialized THEN MapGet(m, channelId) ELSE <<>>

(***************************************************************************)
(* UrlTracker.handleUrlMessage: the decisions.                             *)
(***************************************************************************)
\* Scenario 0, lines 55-60
containsBotanixTwitter(urlList) ==
    /\ BOTANIX_TWITTER # <<>>
    /\ Trim(BOTANIX_TWITTER) # <<>>
    /\ \E j \in 1..Len(urlList) :
          Includes(ToLowerCase(urlList[j]), ToLowerCase(Trim(BOTANIX_TWITTER)))

DifferentAuthorInThread(existingUrl, message) ==
    existingUrl.author # message.author /\ existingUrl.threadId = message.channel

\* line 93: existingUrl.author !== message.author.tag
DifferentAuthor(existingUrl, message) == existingUrl.author # message.author

\* line 113: existingUrl.channelId !== message.channel.id
DifferentThread(existingUrl, message) == existingUrl.channelId # message.channel

\* lines 156-160: ageInMinutes < THRESHOLD_DUPE_AGE
BelowThreshold(existingUrl, currentTime) ==
    currentTime - existingUrl.timestamp < THRESHOLD_DUPE_AGE

\* The branch handleUrlMessage takes for one URL, lines 87-210.  found is the result of
\* findUrlHistory, originalMessage tells whether the fetch of the original returned it.
Outcome(found, message, originalMessage, currentTime) ==
    IF found = <<>> THEN "AcceptNew"
    ELSE IF DifferentAuthor(found[1], message) THEN "WarnDifferentAuthor"
    ELSE IF DifferentThread(found[1], message) THEN "WarnSameAuthorDifferentThread"
    ELSE IF originalMessage THEN "WarnSameAuthorSameThreadOriginalExists"
    ELSE IF BelowThreshold(found[1], currentTime) THEN "AcceptNewAfterPurge"
    ELSE "WarnSameAuthorSameThreadOriginalGoneStale"

Warnings ==
    {"WarnDifferentAuthor", "WarnSameAuthorDifferentThread",
     "WarnSameAuthorSameThreadOriginalExists", "WarnSameAuthorSameThreadOriginalGoneStale"}

\* the branches that add the no-entry reaction after the reply, lines 109 and 129
Reacts(outcome) == outcome \in {"WarnDifferentAuthor", "WarnSameAuthorDifferentThread"}

\* lines 200-209: the record of a new URL; it has no channelId property
NewUrlRecord(url, message, messageId) ==
    [url |-> url, timestamp |-> message.createdTimestamp, author |-> message.author,
     channelId |-> Undefined, threadId |-> message.channel, messageId |-> messageId]

(***************************************************************************)
(* handleFetchLinksCommand: the records it builds.                         *)
(***************************************************************************)
\* lines 306-316: a message of a channel that is not a forum (here: a forum post)
ChannelRecord(url, message, messageId) ==
    [url |-> url, timestamp |-> message.createdTimestamp, author |-> message.author,
     channelId |-> message.channel, threadId |-> message.channel, messageId |-> messageId]

\* lines 284-293: a message of a thread of the forum; it has no channelId property
ForumRecord(url, message, messageId) ==
    [url |-> url, timestamp |-> message.createdTimestamp, author |-> message.author,
     channelId |-> Undefined, threadId |-> message.channel, messageId |-> messageId]

\* one record per link of the text message k has when it is scanned, in the order of the
\* links
MessageRecords(msgs, k, forum) ==
    [j \in 1..Len(msgs[k].content) |->
        IF forum THEN ForumRecord(msgs[k].content[j], msgs[k], k)
        ELSE ChannelRecord(msgs[k].content[j], msgs[k], k)]

\* a fetch that also returns the messages that were removed
RECURSIVE FetchedRecordsWithRemoved(_, _, _, _)
FetchedRecordsWithRemoved(msgs, k, channel, forum) ==
    IF k = 0 THEN <<>>
    ELSE (IF msgs[k].channel = channel THEN MessageRecords(msgs, k, forum) ELSE <<>>)
         \o FetchedRecordsWithRemoved(msgs, k - 1, channel, forum)

\* messages.fetch({ limit: 100 }) returns the existing messages of the channel, newest first
RECURSIVE FetchedRecords(_, _, _, _)
FetchedRecords(msgs, k, channel, forum) ==
    IF k = 0 THEN <<>>
    ELSE (IF msgs[k].exists /\ msgs[k].channel = channel
          THEN MessageRecords(msgs, k, forum) ELSE <<>>)
         \o FetchedRecords(msgs, k - 1, channel, forum)

\* lines 274-320: the threads of the forum one after the other, or the channel itself
ScannedRecords(msgs, target) ==
    IF target = MAIN_CHANNEL_ID
    THEN FetchedRecords(msgs, Len(msgs), "c1", TRUE) \o FetchedRecords(msgs, Len(msgs), "c2", TRUE)
    ELSE FetchedRecords(msgs, Len(msgs), target, FALSE)

\* lines 270-323: the stored records, then the scanned ones, sorted oldest first
CommandUrls(initialized, m, msgs, target) ==
    StableSort(getUrls(initialized, m, target) \o ScannedRecords(msgs, target), FALSE)

(***************************************************************************)
(* The thread name cache (notificator.js): getThreadName, the done         *)
(* callbacks and the cache cleanup.                                        *)
(***************************************************************************)
NoEntries == [t \in {} |-> 0]
IdleHandler == [pc |-> "idle", threadId |-> Undefined, name |-> Undefined]
NoSweep == [at |-> -1, deleted |-> {}]

\* channel.name of a thread
ChannelName(threadId) == IF threadId = "c1" THEN "name1" ELSE "name2"

\* line 128: cacheEntry.pendingOps++
CacheHit(cache, threadId) == [cache EXCEPT ![threadId].pendingOps = @ + 1]

\* lines 146-150: threadNameCache.set(threadId, {name, timestamp, pendingOps: 1})
CacheSet(cache, threadId, name, currentTime) ==
    [t \in DOMAIN cache \cup {threadId} |->
        IF t = threadId
        THEN [name |-> name, timestamp |-> currentTime, pendingOps |-> 1]
        ELSE cache[t]]

\* the done callback, lines 131-136 and 154-159
Release(cache, threadId) ==
    IF threadId \in DOMAIN cache
    THEN [cache EXCEPT ![threadId].pendingOps = @ - 1]
    ELSE cache

ExpiredWhileInUse(data, currentTime) == currentTime - data.timestamp > THREAD_CACHE_TTL

\* line 380: now - data.timestamp > THREAD_CACHE_TTL && data.pendingOps === 0
Expired(data, currentTime) ==
    currentTime - data.timestamp > THREAD_CACHE_TTL /\ data.pendingOps = 0

\* getThreadName, lines 126-141: a hit returns at once, a miss suspends on the fetch
GetThreadName(h, threadId) ==
    /\ handlers[h].pc = "idle"
    /\ IF threadId \in DOMAIN threadNameCache
       THEN /\ threadNameCache' = CacheHit(threadNameCache, threadId)
            /\ handlers' = [handlers EXCEPT ![h] =
                  [pc |-> "holding", threadId |-> threadId,
                   name |-> threadNameCache[threadId].name]]
       ELSE /\ handlers' = [handlers EXCEPT ![h] =
                  [pc |-> "fetching", threadId |-> threadId, name |-> Undefined]]
            /\ UNCHANGED threadNameCache
    /\ UNCHANGED <<now, storeVars, lastSweep>>
FetchReturnsPinned(h, found) ==
    /\ handlers[h].pc = "fetching"
    /\ threadNameCache' = CacheSet(threadNameCache, handlers[h].threadId,
                                   IF found THEN ChannelName(handlers[h].threadId)
                                   ELSE handlers[h].threadId, now)
    /\ handlers' = [handlers EXCEPT ![h].pc = IF found THEN "holding" ELSE "fallback",
                                    ![h].name = IF found THEN ChannelName(handlers[h].threadId)
                                                ELSE handlers[h].threadId]
    /\ UNCHANGED <<now, storeVars, lastSweep>>

\* getThreadName, lines 141-164: client.channels.fetch returns the channel, or null, or throws
FetchReturns(h, found) ==
    /\ handlers[h].pc = "fetching"
    /\ IF found
       THEN /\ threadNameCache' = CacheSet(threadNameCache, handlers[h].threadId,
                                           ChannelName(handlers[h].threadId), now)
            /\ handlers' = [handlers EXCEPT ![h].pc = "holding",
                                            ![h].name = ChannelName(handlers[h].threadId)]
       ELSE /\ handlers' = [handlers EXCEPT ![h].pc = "fallback",
                                            ![h].name = handlers[h].threadId]
            /\ UNCHANGED threadNameCache
    /\ UNCHANGED <<now, storeVars, lastSweep>>

\* messageCreate, lines 468-470: threadNameData.done()
Done(h) ==
    /\ handlers[h].pc \in {"holding", "fallback"}
    /\ threadNameCache' = IF handlers[h].pc = "holding"
                          THEN Release(threadNameCache, handlers[h].threadId)
                          ELSE threadNameCache
    /\ handlers' = [handlers EXCEPT ![h] = IdleHandler]
    /\ UNCHANGED <<now, storeVars, lastSweep>>

\* the cache cleanup, lines 376-384
CacheCleanup ==
    LET deleted == {t \in DOMAIN threadNameCache : Expired(threadNameCache[t], now)}
    IN  /\ threadNameCache' = [t \in DOMAIN threadNameCache \ deleted |-> threadNameCache[t]]
        /\ lastSweep' = [at |-> now, deleted |-> deleted]
        /\ UNCHANGED <<now, storeVars, handlers>>

(***************************************************************************)
(* The delayed URL check of a message (notificator.js, messageCreate and   *)
(* checkAndStoreUrls) and handleUrlMessage, one action per stretch between *)
(* two suspension points.                                                  *)
(*   pc: "timer"  the timeout is pending                                   *)
(*       "loop"   handleUrlMessage is at the head of its for loop, at      *)
(*                link number i                                            *)
(*       "done"   the check has ended, with result                         *)
(***************************************************************************)
NewMessage(author, channel, content) ==
    [author |-> author, channel |-> channel, urls |-> content, createdTimestamp |-> now,
     exists |-> TRUE, pc |-> "timer", i |-> 1, urlsToStore |-> <<>>, out |-> <<>>,
     replies |-> <<>>, result |-> "pending", sent |-> <<>>,
     retries |-> 0, fetches |-> 0, error |-> "none", content |-> content]

\* messageCreate, lines 449-467: a legal message with links arrives and its check is scheduled
MessageCreate(author, channel, content) ==
    /\ Len(messages) < MaxMsgs
    \* authors and threads are interchangeable: the first message is A's, in c1
    /\ messages = <<>> => author = "A" /\ channel = "c1"
    /\ messages' = Append(messages, NewMessage(author, channel, content))
    /\ UNCHANGED <<now, isInitialized, urls, commands, cacheVars>>

\* a user or a moderator removes the message
DeleteMessage(k) ==
    /\ messages[k].exists
    /\ messages' = [messages EXCEPT ![k].exists = FALSE]
    /\ UNCHANGED <<now, isInitialized, urls, commands, cacheVars>>
\* an edit after which the delayed check reads the links of the new text
EditedMessageRematched(m, content) == [m EXCEPT !.content = content, !.urls = content]

\* the author edits the message: message.content changes; urls, the constant of the
\* handler's closure that line 449 filled and line 456 passes on, does not
EditedMessage(m, content) == [m EXCEPT !.content = content]

EditMessage(k, content) ==
    /\ messages[k].exists
    /\ messages[k].content # content
    /\ messages' = [messages EXCEPT ![k] = EditedMessage(@, content)]
    /\ UNCHANGED <<now, isInitialized, urls, commands, cacheVars>>

checkMessageExistsUnchecked(exists, fetchFails) == TRUE

\* checkMessageExists, lines 181-195: true only when the fetch returns the message
checkMessageExists(exists, fetchFails) == exists /\ ~fetchFails

\* what the end of a check leaves in the message's entry
Ended(m, result) == [m EXCEPT !.pc = "done", !.result = result]

RejectBatchDeleteFirst(m, replyOk, deletable, deleteOk) ==
    IF ~deletable \/ ~deleteOk THEN Ended(m, "error")
    ELSE IF ~replyOk THEN Ended([m EXCEPT !.sent = Append(@, "Rejected"), !.exists = FALSE], "error")
    ELSE Ended([m EXCEPT !.sent = Append(@, "Rejected"), !.replies = Append(@, "Rejected"),
                         !.exists = FALSE], "rejected")

\* Scenario 0 of handleUrlMessage, lines 60-80: reply, delete the message if deletable, return []
RejectBatch(m, replyOk, deletable, deleteOk) ==
    LET called == [m EXCEPT !.sent = Append(@, "Rejected")]
    IN  IF ~replyOk THEN Ended(called, "error")
        ELSE IF ~deletable
        THEN Ended([called EXCEPT !.replies = Append(@, "Rejected")], "rejected-kept")
        ELSE IF ~deleteOk THEN Ended([called EXCEPT !.replies = Append(@, "Rejected")], "error")
        ELSE Ended([called EXCEPT !.replies = Append(@, "Rejected"), !.exists = FALSE],
                   "rejected")

\* checkAndStoreUrls, lines 452-463, up to the first lookup of handleUrlMessage
checkAndStoreUrls(k) ==
    /\ messages[k].pc = "timer"
    /\ now >= messages[k].createdTimestamp + URL_CHECK_TIMEOUT
    /\ \E fetchFails \in BOOLEAN, replyOk \in BOOLEAN, deletable \in BOOLEAN, deleteOk \in BOOLEAN :
          messages' = [messages EXCEPT ![k] =
              IF ~checkMessageExists(@.exists, fetchFails) THEN Ended(@, "skipped")
              ELSE IF containsBotanixTwitter(@.urls)
                   THEN RejectBatch(@, replyOk, deletable, deleteOk)
              ELSE [@ EXCEPT !.pc = "loop"]]
    /\ UNCHANGED <<now, isInitialized, urls, commands, cacheVars>>
\* line 24
MAX_FETCH_RETRIES == 3

\* what message.channel.messages.fetch(message.id) can answer: the message, if it is still
\* there, or an error with a code
FetchAnswers(exists) ==
    IF exists THEN {"ok", "NETWORK_ERROR", "UNKNOWN_MESSAGE"}
    ELSE {"NETWORK_ERROR", "UNKNOWN_MESSAGE"}

\* a retry after whatever error the fetch gave
RetriesAnyError(retries, code) == code # "ok"

\* line 186: retries < MAX_FETCH_RETRIES && error.code === 'NETWORK_ERROR'
Retries(retries, code) == retries < MAX_FETCH_RETRIES /\ code = "NETWORK_ERROR"

\* checkAndStoreUrls with the fetches of checkMessageExists one by one, lines 181-195 and
\* 452-463: the first fetch when the timeout fires, each further one after the wait of
\* line 187 (a fifth of the timeout, so within the same tick); the answer true goes on to
\* handleUrlMessage, the answer false ends the check
FetchMessage(k) ==
    /\ \/ /\ messages[k].pc = "timer"
          /\ now >= messages[k].createdTimestamp + URL_CHECK_TIMEOUT
       \/ messages[k].pc = "retry"
    /\ \E code \in FetchAnswers(messages[k].exists), replyOk \in BOOLEAN,
          deletable \in BOOLEAN, deleteOk \in BOOLEAN :
          messages' = [messages EXCEPT ![k] =
              LET fetched == [@ EXCEPT !.fetches = @ + 1, !.error = code]
              IN  IF code = "ok"
                  THEN IF containsBotanixTwitter(@.urls)
                       THEN RejectBatch(fetched, replyOk, deletable, deleteOk)
                       ELSE [fetched EXCEPT !.pc = "loop"]
                  ELSE IF Retries(@.retries, code)
                  THEN [fetched EXCEPT !.pc = "retry", !.retries = @ + 1]
                  ELSE Ended(fetched, "skipped")]
    /\ UNCHANGED <<now, isInitialized, urls, commands, cacheVars>>

\* lines 133-135: the fetch of the original message in the current channel, null on any error
OriginalFetched(existingUrl, message, fetchFails) ==
    /\ ~fetchFails
    /\ existingUrl.messageId \in 1..Len(messages)
    /\ messages[existingUrl.messageId].exists
    /\ messages[existingUrl.messageId].channel = message.channel
\* a pass that also looks for the link among the records staged earlier in the batch
ClassifyStepCrossChecked(m, k, found, originalMessage, failure) ==
    LET url == m.urls[m.i]
        staged == \E p \in 1..Len(m.urlsToStore) : m.urlsToStore[p].url = url
        outcome == IF staged THEN "WarnSameAuthorSameThreadOriginalExists"
                   ELSE Outcome(found, m, originalMessage, now)
        seen == [m EXCEPT !.out = Append(@, outcome)]
    IN  IF outcome = "AcceptNew"
        THEN [seen EXCEPT !.urlsToStore = Append(@, NewUrlRecord(url, m, k)), !.i = @ + 1]
        ELSE [seen EXCEPT !.sent = Append(@, outcome), !.replies = Append(@, outcome),
                          !.i = @ + 1]

\* a pass that sends no reply for a repost whose original is gone and stale
ClassifyStepSilentStale(m, k, found, originalMessage, failure) ==
    LET url == m.urls[m.i]
        outcome == Outcome(found, m, originalMessage, now)
        seen == [m EXCEPT !.out = Append(@, outcome)]
    IN  IF outcome = "AcceptNew"
        THEN [seen EXCEPT !.urlsToStore = Append(@, NewUrlRecord(url, m, k)), !.i = @ + 1]
        ELSE IF outcome = "AcceptNewAfterPurge" THEN Ended(seen, "error")
        ELSE IF outcome = "WarnSameAuthorSameThreadOriginalGoneStale"
        THEN [seen EXCEPT !.i = @ + 1]
        ELSE [seen EXCEPT !.sent = Append(@, outcome), !.replies = Append(@, outcome),
                          !.i = @ + 1]

\* One pass of the for loop, lines 85-211, for link i of the message.
\* failure says which of the calls to the platform throws, if one is made; sent holds the
\* replies the pass called for, replies those that went through.
ClassifyStep(m, k, found, originalMessage, failure) ==
    LET url == m.urls[m.i]
        outcome == Outcome(found, m, originalMessage, now)
        seen == [m EXCEPT !.out = Append(@, outcome)]
    IN  IF outcome = "AcceptNew"
        THEN [seen EXCEPT !.urlsToStore = Append(@, NewUrlRecord(url, m, k)), !.i = @ + 1]
        ELSE IF outcome = "AcceptNewAfterPurge"
        THEN \* line 162: this.urlStore.deleteUrl is not a function of UrlStorage; the
             \* TypeError is caught at line 223 and handleUrlMessage returns []
             Ended(seen, "error")
        ELSE IF failure = "reply" THEN Ended([seen EXCEPT !.sent = Append(@, outcome)], "error")
        ELSE IF failure = "react" /\ Reacts(outcome)
        THEN Ended([seen EXCEPT !.sent = Append(@, outcome), !.replies = Append(@, outcome)],
                   "error")
        ELSE [seen EXCEPT !.sent = Append(@, outcome), !.replies = Append(@, outcome),
                          !.i = @ + 1]

ClassifyUrl(k) ==
    /\ messages[k].pc = "loop"
    /\ messages[k].i <= Len(messages[k].urls)
    /\ \E fetchFails \in BOOLEAN, failure \in {"none", "reply", "react"} :
          LET m == messages[k]
              found == findUrlHistory(isInitialized, urls, m.urls[m.i])
              originalMessage == found # <<>> /\ OriginalFetched(found[1], m, fetchFails)
          IN  messages' = [messages EXCEPT ![k] =
                              ClassifyStep(m, k, found, originalMessage, failure)]
    /\ UNCHANGED <<now, isInitialized, urls, commands, cacheVars>>
\* a save that also runs for a batch that ended in the catch block
StoreUrlsAfterError(k) ==
    /\ \/ messages[k].pc = "loop" /\ messages[k].i > Len(messages[k].urls)
       \/ messages[k].result = "error" /\ messages[k].urlsToStore # <<>>
    /\ urls' = IF messages[k].urlsToStore # <<>> /\ isInitialized
               THEN saveUrls(urls, messages[k].channel, messages[k].urlsToStore)
               ELSE urls
    /\ messages' = [messages EXCEPT ![k] =
                       IF @.pc = "loop" THEN Ended(@, "returned") ELSE [@ EXCEPT !.urlsToStore = <<>>]]
    /\ UNCHANGED <<now, isInitialized, commands, cacheVars>>

\* lines 213-222 with saveUrls, lines 31-48: the merge into the channel's list
StoreUrls(k) ==
    /\ messages[k].pc = "loop"
    /\ messages[k].i > Len(messages[k].urls)
    /\ urls' = IF messages[k].urlsToStore # <<>> /\ isInitialized
               THEN saveUrls(urls, messages[k].channel, messages[k].urlsToStore)
               ELSE urls
    /\ messages' = [messages EXCEPT ![k] = Ended(@, "returned")]
    /\ UNCHANGED <<now, isInitialized, commands, cacheVars>>

\* handleFetchLinksCommand, lines 257-330
FetchLinks(target) ==
    /\ commands < MaxCommands
    /\ commands' = commands + 1
    /\ urls' = IF isInitialized
               THEN saveUrls(urls, target, CommandUrls(isInitialized, urls, messages, target))
               ELSE urls
    /\ UNCHANGED <<now, isInitialized, messages, cacheVars>>

\* time passes
Tick ==
    /\ now < MaxTime
    /\ now' = now + 1
    /\ UNCHANGED <<storeVars, cacheVars>>

(***************************************************************************)
(* The router: the part of the messageCreate handler that runs while the   *)
(* thread name is held (notificator.js lines 433-470), handleWrongThread,  *)
(* and the rate limiter the handler calls (checkRateLimit, defined in      *)
(* notificator3.js).                                                       *)
(***************************************************************************)
RATE_LIMIT_COOLDOWN == 2
TicksPerSecond == 2

Tiers == 0..5
ROLE_ID == [i \in Tiers |-> <<"r0", "r1", "r2", "r3", "r4", "r5">>[i + 1]]
THREAD_ID == [i \in Tiers |-> <<"c0", "c1", "c2", "c3", "c4", "c5">>[i + 1]]

\* process.env.IGNORED_ROLES split at the commas, each part trimmed
ignoredRoles == {"mod"}

\* The members who post, with message.member.roles.cache of each, and the forum threads
\* they post in.
MemberRoles ==
    [u \in {"A", "B", "C", "D"} |->
        CASE u = "A" -> {"r3"}
          [] u = "B" -> {"r3", "r5"}
          [] u = "C" -> {"r3", "mod"}
          [] u = "D" -> {}]
Members == DOMAIN MemberRoles
RouterThreads == {"c3", "c5"}

\* line 21: parseInt(process.env.AUTO_DELETE_TIMER) || 30
AUTO_DELETE_TIMER_SECONDS(env) == IF env # 0 THEN env ELSE 30

\* line 22: AUTO_DELETE_TIMER_SECONDS * 1000, here in ticks
AUTO_DELETE_TIMER(env) == AUTO_DELETE_TIMER_SECONDS(env) * TicksPerSecond
RateLimitHitInclusive(map, userId, currentTime) ==
    /\ userId \in DOMAIN map
    /\ map[userId] # 0
    /\ currentTime - map[userId] <= RATE_LIMIT_COOLDOWN

\* notificator3.js lines 36-38: userRateLimit && now - userRateLimit < RATE_LIMIT_COOLDOWN
RateLimitHit(map, userId, currentTime) ==
    /\ userId \in DOMAIN map
    /\ map[userId] # 0
    /\ currentTime - map[userId] < RATE_LIMIT_COOLDOWN
checkRateLimitAlwaysStamp(map, userId, currentTime) ==
    [limited |-> RateLimitHit(map, userId, currentTime),
     map |-> [u \in DOMAIN map \cup {userId} |-> IF u = userId THEN currentTime ELSE map[u]]]

\* notificator3.js lines 34-45: the answer (true = limited) and the map afterwards
checkRateLimit(map, userId, currentTime) ==
    IF RateLimitHit(map, userId, currentTime)
    THEN [limited |-> TRUE, map |-> map]
    ELSE [limited |-> FALSE,
          map |-> [u \in DOMAIN map \cup {userId} |->
                      IF u = userId THEN currentTime ELSE map[u]]]
HasOnlyIgnoredRoles(roles) == roles # {} /\ \A role \in roles : role \in ignoredRoles

\* line 437: message.member.roles.cache.some(role => ignoredRoles.has(role.id))
HasIgnoredRole(roles) == \E role \in roles : role \in ignoredRoles

\* lines 33-41, the loop from tier i downwards
RECURSIVE ScanRoles(_, _)
ScanRoles(memberRoles, i) ==
    IF i < 0 THEN -1
    ELSE IF ROLE_ID[i] \in memberRoles THEN i
    ELSE ScanRoles(memberRoles, i - 1)
findLowestRole(memberRoles) ==
    IF \E i \in Tiers : ROLE_ID[i] \in memberRoles
    THEN CHOOSE i \in Tiers :
            /\ ROLE_ID[i] \in memberRoles
            /\ \A j \in Tiers : ROLE_ID[j] \in memberRoles => i <= j
    ELSE -1

findHighestRole(memberRoles) == ScanRoles(memberRoles, 5)
RouteDecisionInverted(limited, roles, channel) ==
    IF limited THEN [decision |-> "RateLimited", correctThreadId |-> Undefined]
    ELSE IF HasIgnoredRole(roles) THEN [decision |-> "Ignored", correctThreadId |-> Undefined]
    ELSE IF findHighestRole(roles) = -1 THEN [decision |-> "NoRole", correctThreadId |-> Undefined]
    ELSE IF channel = THREAD_ID[findHighestRole(roles)]
         THEN [decision |-> "Misrouted", correctThreadId |-> THREAD_ID[findHighestRole(roles)]]
    ELSE [decision |-> "Allowed", correctThreadId |-> Undefined]

\* lines 435-447: where the handler leaves the try block, and the thread it names
RouteDecision(limited, roles, channel) ==
    IF limited THEN [decision |-> "RateLimited", correctThreadId |-> Undefined]
    ELSE IF HasIgnoredRole(roles) THEN [decision |-> "Ignored", correctThreadId |-> Undefined]
    ELSE IF findHighestRole(roles) = -1 THEN [decision |-> "NoRole", correctThreadId |-> Undefined]
    ELSE IF channel # THREAD_ID[findHighestRole(roles)]
         THEN [decision |-> "Misrouted", correctThreadId |-> THREAD_ID[findHighestRole(roles)]]
    ELSE [decision |-> "Allowed", correctThreadId |-> Undefined]

NoRouting ==
    [stage |-> "none", id |-> 0, author |-> Undefined, roles |-> {}, channel |-> Undefined,
     limited |-> FALSE, decision |-> Undefined, correctThreadId |-> Undefined,
     notice |-> 0, deleted |-> FALSE]

\* lines 415-433: a member's message in a forum post reaches getThreadName
RouterMessage(h, author, roles, channel) ==
    /\ posted < MaxPosts
    /\ routing[h].stage = "none"
    /\ \A g \in 1..(h - 1) : routing[g].stage # "none"
    /\ GetThreadName(h, channel)
    /\ posted' = posted + 1
    /\ routing' = [routing EXCEPT ![h] =
          [NoRouting EXCEPT !.stage = "arrived", !.id = posted + 1, !.author = author,
                            !.roles = roles, !.channel = channel]]
    /\ UNCHANGED <<autoDeleteEnv, rateLimitMap, notices>>

\* lines 435-447 and 197-225: the checks, up to the return or to the reply of handleWrongThread
Route(h) ==
    LET r == routing[h]
        rate == checkRateLimit(rateLimitMap, r.author, now)
        d == RouteDecision(rate.limited, r.roles, r.channel)
    IN  /\ handlers[h].pc \in {"holding", "fallback"}
        /\ r.stage = "arrived"
        /\ rateLimitMap' = rate.map
        /\ routing' = [routing EXCEPT ![h] =
              [r EXCEPT !.limited = rate.limited, !.decision = d.decision,
                        !.correctThreadId = d.correctThreadId,
                        !.stage = IF d.decision = "Misrouted" THEN "replying" ELSE "end"]]
        /\ UNCHANGED <<now, storeVars, cacheVars, autoDeleteEnv, notices, posted>>

\* the entry of a routed message in the list of messages: the message with the number it
\* got on arrival and the decision of the router; its delayed check is pending only when
\* one was scheduled
PostedMessage(r, content, decision, scheduled) ==
    [author |-> r.author, channel |-> r.channel, urls |-> content, createdTimestamp |-> now,
     exists |-> TRUE, pc |-> IF scheduled THEN "timer" ELSE "unscheduled", i |-> 1,
     urlsToStore |-> <<>>, out |-> <<>>, replies |-> <<>>, result |-> "pending",
     post |-> r.id, decision |-> decision, sent |-> <<>>,
     retries |-> 0, fetches |-> 0, error |-> "none", content |-> content]

\* message.delete() of handleWrongThread went through: the routed message is gone
Removed(msgs, post) ==
    [k \in 1..Len(msgs) |->
        IF msgs[k].post = post THEN [msgs[k] EXCEPT !.exists = FALSE] ELSE msgs[k]]

\* a schedule that takes every message with links
SchedulesEveryMessage(decision, content) == content # <<>>

\* a schedule that also takes the messages of members who hold an ignored role or no role
SchedulesEveryLegal(decision, content) ==
    decision \in {"Allowed", "Ignored", "NoRole"} /\ content # <<>>

\* lines 444-466: only a message that passed every return of the try block reaches
\* message.content.match, and setTimeout is called only when the match is not null
Schedules(decision, content) == decision = "Allowed" /\ content # <<>>

\* lines 435-467 for a message whose text holds the links of content (none: <<>>): the
\* decision of Route, and for a message in its right thread the timeout of the delayed check
RouteAndSchedule(h, content) ==
    LET r == routing[h]
        rate == checkRateLimit(rateLimitMap, r.author, now)
        d == RouteDecision(rate.limited, r.roles, r.channel)
    IN  /\ handlers[h].pc \in {"holding", "fallback"}
        /\ r.stage = "arrived"
        /\ rateLimitMap' = rate.map
        /\ routing' = [routing EXCEPT ![h] =
              [r EXCEPT !.limited = rate.limited, !.decision = d.decision,
                        !.correctThreadId = d.correctThreadId,
                        !.stage = IF d.decision = "Misrouted" THEN "replying" ELSE "end"]]
        /\ messages' = Append(messages, PostedMessage(r, content, d.decision,
                                                      Schedules(d.decision, content)))
        /\ UNCHANGED <<now, isInitialized, urls, commands, cacheVars, autoDeleteEnv, notices,
                       posted>>

\* lines 230-240: the timer of a notice that was posted
ScheduleAutoDelete(env, currentTime) ==
    IF AUTO_DELETE_TIMER(env) > 0
    THEN [timer |-> "pending", fireAt |-> currentTime + AUTO_DELETE_TIMER(env)]
    ELSE [timer |-> "none", fireAt |-> 0]

NewNotice(r) ==
    [replyTo |-> r.id, thread |-> r.correctThreadId, exists |-> TRUE,
     timer |-> "none", fireAt |-> 0]

SetTimer(list, n, env, currentTime) ==
    [list EXCEPT ![n].timer = ScheduleAutoDelete(env, currentTime).timer,
                 ![n].fireAt = ScheduleAutoDelete(env, currentTime).fireAt]

\* lines 225-245: message.reply returns or throws; deletable is message.deletable
ReplyReturns(h, replyOk, deletable) ==
    LET r == routing[h]
        n == Len(notices) + 1
    IN  /\ r.stage = "replying"
        /\ IF replyOk
           THEN IF deletable
                THEN /\ notices' = Append(notices, NewNotice(r))
                     /\ routing' = [routing EXCEPT ![h].notice = n, ![h].stage = "deleting"]
                ELSE /\ notices' = SetTimer(Append(notices, NewNotice(r)), n, autoDeleteEnv, now)
                     /\ routing' = [routing EXCEPT ![h].notice = n, ![h].stage = "end"]
           ELSE /\ notices' = notices
                /\ routing' = [routing EXCEPT ![h].stage =
                                  IF deletable THEN "catchDeleting" ELSE "end"]
        /\ UNCHANGED <<now, storeVars, cacheVars, autoDeleteEnv, rateLimitMap, posted>>

\* lines 227-245: message.delete of the try block returns or throws
DeleteReturns(h, deleteOk, deletable) ==
    LET r == routing[h]
    IN  /\ r.stage = "deleting"
        /\ IF deleteOk
           THEN /\ notices' = SetTimer(notices, r.notice, autoDeleteEnv, now)
                /\ routing' = [routing EXCEPT ![h].deleted = TRUE, ![h].stage = "end"]
                /\ messages' = Removed(messages, r.id)
           ELSE /\ notices' = notices
                /\ routing' = [routing EXCEPT ![h].stage =
                                  IF deletable THEN "catchDeleting" ELSE "end"]
                /\ messages' = messages
        /\ UNCHANGED <<now, isInitialized, urls, commands, cacheVars, autoDeleteEnv,
                       rateLimitMap, posted>>

\* line 244: message.delete().catch(() => {}) of the catch block
CatchDeleteReturns(h, deleteOk) ==
    /\ routing[h].stage = "catchDeleting"
    /\ routing' = [routing EXCEPT ![h].deleted = deleteOk, ![h].stage = "end"]
    /\ messages' = IF deleteOk THEN Removed(messages, routing[h].id) ELSE messages
    /\ UNCHANGED <<now, isInitialized, urls, commands, cacheVars, autoDeleteEnv, rateLimitMap,
                   notices, posted>>

\* lines 468-470: the finally block, after which the handler is over
Finally(h) ==
    /\ routing[h].stage = "end"
    /\ Done(h)
    /\ routing' = [routing EXCEPT ![h] = NoRouting]
    /\ UNCHANGED <<autoDeleteEnv, rateLimitMap, notices, posted>>

\* lines 231-239: the timer of notice n fires, once
AutoDelete(n, deletable, deleteOk) ==
    /\ notices[n].timer = "pending"
    /\ now >= notices[n].fireAt
    /\ notices' = [notices EXCEPT ![n].timer = "fired",
                                  ![n].exists = IF deletable /\ deleteOk THEN FALSE ELSE @]
    /\ UNCHANGED <<now, storeVars, cacheVars, autoDeleteEnv, rateLimitMap, routing, posted>>

\* time passes, in ticks of half a second
TickRouter ==
    /\ now < MaxRouterTime
    /\ now' = now + 1
    /\ UNCHANGED <<storeVars, cacheVars, routerVars>>

(***************************************************************************)
(* The link store on its own (UrlStorage, urlStore.js): callers save       *)
(* batches, add single URLs and run the cleanup while time passes.  This   *)
(* specification (SpecStore) counts the clock in ticks of fifteen days, so *)
(* the 30 days of the cleanup are two ticks.                               *)
(***************************************************************************)
maxAge == 2

\* lines 87-95: the record addUrl builds; threadId is null by default
UrlEntry(url, channelId, author, currentTime) ==
    [url |-> url, timestamp |-> currentTime, author |-> author,
     channelId |-> channelId, threadId |-> Undefined, messageId |-> 0]

\* lines 97-99: the push goes into the array the Map holds, when it holds one, and that
\* array is then handed to saveUrls as the batch
addUrl(m, channelId, urlEntry) ==
    IF MapHas(m, channelId)
    THEN saveUrls(MapSet(m, channelId, Append(MapGet(m, channelId), urlEntry)),
                  channelId, Append(MapGet(m, channelId), urlEntry))
    ELSE saveUrls(m, channelId, <<urlEntry>>)

\* line 125: urls.filter(url => now - url.timestamp < maxAge)
RECURSIVE FilterByAge(_, _)
FilterByAge(list, currentTime) ==
    IF list = <<>> THEN <<>>
    ELSE IF currentTime - Head(list).timestamp < maxAge
         THEN <<Head(list)>> \o FilterByAge(Tail(list), currentTime)
    ELSE FilterByAge(Tail(list), currentTime)

\* a sweep that keeps the records that are exactly as old as the window
cleanupInclusive(m, currentTime) ==
    [j \in 1..Len(m) |->
        [id |-> m[j].id,
         list |-> SelectSeq(m[j].list, LAMBDA r : currentTime - r.timestamp <= maxAge)]]

\* lines 119-130: the in-memory part of cleanup
cleanup(m, currentTime) ==
    [j \in 1..Len(m) |-> [id |-> m[j].id, list |-> FilterByAge(m[j].list, currentTime)]]

\* The batches callers hand to saveUrls: one or two records made now.
StoreBatches(channelId, currentTime) ==
    {<<UrlEntry(u, channelId, "A", currentTime)>> : u \in {U1, U2}}
        \cup {<<UrlEntry(u, channelId, "A", currentTime), UrlEntry(v, channelId, "A", currentTime)>> :
                 u \in {U1, U2}, v \in {U1, U2}}

\* UrlStorage.saveUrls, lines 31-48
SaveUrlsCall(channelId, newUrls) ==
    /\ urls' = IF isInitialized THEN saveUrls(urls, channelId, newUrls) ELSE urls
    /\ UNCHANGED <<now, isInitialized, messages, commands, cacheVars, routerVars>>

\* UrlStorage.addUrl, lines 81-103
AddUrlCall(url, channelId, author) ==
    /\ Len(MapGet(urls, channelId)) < MaxRecords
    /\ urls' = IF isInitialized
               THEN addUrl(urls, channelId, UrlEntry(url, channelId, author, now))
               ELSE urls
    /\ UNCHANGED <<now, isInitialized, messages, commands, cacheVars, routerVars>>

\* UrlStorage.cleanup, lines 113-141
CleanupCall ==
    /\ urls' = IF isInitialized THEN cleanup(urls, now) ELSE urls
    /\ UNCHANGED <<now, isInitialized, messages, commands, cacheVars, routerVars>>

(***************************************************************************)
(* The class UrlStore of urlStore.js, lines 170-255: one flat list of       *)
(* records, data.urls.  The bot does not construct it; its methods are      *)
(* called here one at a time.  The first call runs init, which leaves the   *)
(* list as constructed when url_data.json does not exist yet.               *)
(***************************************************************************)
MaxData == 3

\* lines 173-179, the constructor
Constructed == [initialized |-> FALSE, urls |-> <<>>]

\* lines 211-217
UrlStoreEntry(url, channelId, currentTime) ==
    [url |-> url, userId |-> "A", channelId |-> channelId, messageId |-> 0,
     timestamp |-> currentTime]

\* a deletion that stops at the first record with the URL
RECURSIVE deleteFirstUrl(_, _)
deleteFirstUrl(list, url) ==
    IF list = <<>> THEN <<>>
    ELSE IF Head(list).url = url THEN Tail(list)
    ELSE <<Head(list)>> \o deleteFirstUrl(Tail(list), url)

\* line 251: this.data.urls.filter(entry => entry.url !== url)
RECURSIVE deleteUrl(_, _)
deleteUrl(list, url) ==
    IF list = <<>> THEN <<>>
    ELSE IF Head(list).url # url THEN <<Head(list)>> \o deleteUrl(Tail(list), url)
    ELSE deleteUrl(Tail(list), url)

\* UrlStore.addUrl, lines 208-223
UrlStoreAddUrl(url, channelId) ==
    /\ Len(flatStore.urls) < MaxData
    /\ flatStore' = [initialized |-> TRUE,
                     urls |-> Append(flatStore.urls, UrlStoreEntry(url, channelId, now))]
    /\ UNCHANGED <<now, storeVars, cacheVars, routerVars, storageFile, cmds, proc>>

\* UrlStore.deleteUrl, lines 248-254
UrlStoreDeleteUrl(url) ==
    /\ flatStore' = [initialized |-> TRUE, urls |-> deleteUrl(flatStore.urls, url)]
    /\ UNCHANGED <<now, storeVars, cacheVars, routerVars, storageFile, cmds, proc>>

(***************************************************************************)
(* The document of the store and the process.                              *)
(***************************************************************************)
\* data/urls.json: absent, or holding JSON text that parses to doc, or text that does not parse
EmptyDocument == [state |-> "valid", doc |-> <<>>]
AbsentDocument == [state |-> "absent", doc |-> <<>>]
CorruptDocument == [state |-> "corrupt", doc |-> <<>>]

\* a document left by an earlier run: one record of a message of thread c2
StoredDocument ==
    [state |-> "valid",
     doc |-> <<[id |-> "c2",
                list |-> <<[url |-> U2, timestamp |-> 0, author |-> "B", channelId |-> Undefined,
                            threadId |-> "c2", messageId |-> 0]>>]>>]

\* the process before the ready handler has run
Starting ==
    [state |-> "starting", uncaughtException |-> FALSE, unhandledRejection |-> FALSE,
     mkdirOk |-> TRUE, document |-> "unread"]

\* the process after the ready handler, with no fatal event so far
Serving == [Starting EXCEPT !.state = "serving"]

\* an initialisation that takes a missing document for a failure
UrlStorageInitStrict(document, mkdirOk) ==
    IF mkdirOk /\ document.state = "valid"
    THEN [isInitialized |-> TRUE, urls |-> document.doc]
    ELSE [isInitialized |-> FALSE, urls |-> <<>>]

\* UrlStorage.init, urlStore.js lines 12-29: mkdir, then readFile with '{}' for any read
\* error, then JSON.parse; any throw leaves an empty index and isInitialized false
UrlStorageInit(document, mkdirOk) ==
    IF mkdirOk /\ document.state # "corrupt"
    THEN [isInitialized |-> TRUE,
          urls |-> IF document.state = "absent" THEN <<>> ELSE document.doc]
    ELSE [isInitialized |-> FALSE, urls |-> <<>>]

\* the ready handler, notificator.js lines 390-412: urlStore.init never throws; a main
\* channel that is not a forum ends the process
Ready(mkdirOk, forumOk) ==
    /\ proc.state = "starting"
    /\ isInitialized' = UrlStorageInit(storageFile, mkdirOk).isInitialized
    /\ urls' = UrlStorageInit(storageFile, mkdirOk).urls
    /\ proc' = [proc EXCEPT !.state = IF forumOk THEN "serving" ELSE "exited",
                            !.mkdirOk = mkdirOk, !.document = storageFile.state]
    /\ UNCHANGED <<now, messages, commands, cacheVars, routerVars, storageFile, cmds, flatStore>>

\* a handler that logs the exception and goes on
uncaughtExceptionLogged(p) == [p EXCEPT !.uncaughtException = TRUE]

\* process.on('uncaughtException'), notificator.js lines 480-483: log, process.exit(1)
uncaughtException(p) == [p EXCEPT !.uncaughtException = TRUE, !.state = "exited"]

\* process.on('unhandledRejection'), lines 485-492: log, await the promise in a try, log
unhandledRejection(p) == [p EXCEPT !.unhandledRejection = TRUE]

UncaughtException ==
    /\ proc.state # "exited"
    /\ proc' = uncaughtException(proc)
    /\ UNCHANGED <<now, storeVars, cacheVars, routerVars, storageFile, cmds, flatStore>>

UnhandledRejection ==
    /\ proc.state # "exited"
    /\ proc' = unhandledRejection(proc)
    /\ UNCHANGED <<now, storeVars, cacheVars, routerVars, storageFile, cmds, flatStore>>

(***************************************************************************)
(* handleFetchLinksCommand, notificator.js lines 249-373, step by step:    *)
(* the argument check, the fetch of the channel, the scan with the         *)
(* synchronous part of saveUrls, and the return of fs.writeFile.           *)
(***************************************************************************)
MaxCmds == 2

\* line 251: the number of words of the message, "!fetch links" being two
Argcs == {2, 3, 4}

ArgsValidAtLeast(argc) == argc >= 3

\* line 252: args.length !== 3 is a usage error
ArgsValid(argc) == argc = 3

NewCommand(argc, target) ==
    [argc |-> argc, target |-> target, pc |-> "fetch", fetched |-> FALSE, replies |-> <<>>,
     count |-> 0, attempts |-> 0, call |-> 0, snapshot |-> <<>>, wrote |-> "none"]

\* the calls of saveUrls made so far
Calls(cs) == Cardinality({j \in 1..Len(cs) : cs[j].attempts > 0})

\* a text made from the index when the write returns
urlDataLate(c, m) == m

\* urlStore.js lines 50-51: the text handed to fs.writeFile is made from the index before
\* the await
urlData(c, m) == c.snapshot

\* message.reply is called with the text
Reply(c, text) == [c EXCEPT !.replies = Append(@, text)]

\* lines 369-372: the catch of the handler; a failure of its reply is swallowed
Caught(c) == [Reply(c, "ProcessingError") EXCEPT !.pc = "done"]

\* a reply made outside the inner try: its failure goes to the catch of the handler
ReplyOuter(c, text, replyOk) ==
    IF replyOk THEN [Reply(c, text) EXCEPT !.pc = "done"] ELSE Caught(Reply(c, text))

\* lines 365-368: the inner catch replies; a failure of that reply goes to the outer catch
CaughtInner(c, innerOk) == ReplyOuter(c, "FetchError", innerOk)

\* lines 341-364: the reply after the save loop, inside the inner try
ReplyResult(c, replyOk, innerOk) ==
    LET text == IF c.count = 0 THEN "NoUrls" ELSE "SavedSuccessfully"
    IN  IF replyOk THEN [Reply(c, text) EXCEPT !.pc = "done"]
        ELSE CaughtInner(Reply(c, text), innerOk)

\* lines 249-256: the command arrives
CommandArrives(argc, target, replyOk) ==
    /\ proc.state = "serving"
    /\ Len(cmds) < MaxCmds
    \* "!fetch links" has no third word
    /\ (argc = 2) = (target = Undefined)
    /\ cmds' = Append(cmds, IF ArgsValid(argc) THEN NewCommand(argc, target)
                            ELSE ReplyOuter(NewCommand(argc, target), "Usage", replyOk))
    /\ UNCHANGED <<now, storeVars, cacheVars, routerVars, storageFile, proc, flatStore>>

\* lines 258-263: client.channels.fetch(channelId).catch(() => null)
ChannelFetched(k, found, replyOk) ==
    /\ proc.state = "serving"
    /\ cmds[k].pc = "fetch"
    /\ cmds' = [cmds EXCEPT ![k] =
                   IF found THEN [@ EXCEPT !.fetched = TRUE, !.pc = "scan"]
                   ELSE ReplyOuter([@ EXCEPT !.fetched = TRUE], "NotFound", replyOk)]
    /\ UNCHANGED <<now, storeVars, cacheVars, routerVars, storageFile, proc, flatStore>>

\* lines 267-340 with saveUrls, urlStore.js lines 31-49: the scan, the sort and the call of
\* saveUrls up to fs.writeFile, whose text is made from the index at that moment; saveUrls
\* of a store that is not initialized returns at once and the loop takes that for a save
ScanAndSave(k, scanOk, replyOk, innerOk) ==
    /\ proc.state = "serving"
    /\ cmds[k].pc = "scan"
    /\ LET found == CommandUrls(isInitialized, urls, messages, cmds[k].target)
           saved == saveUrls(urls, cmds[k].target, found)
       IN  IF ~scanOk
           THEN /\ cmds' = [cmds EXCEPT ![k] = CaughtInner(@, innerOk)]
                /\ urls' = urls
           ELSE IF isInitialized
           THEN /\ urls' = saved
                /\ cmds' = [cmds EXCEPT ![k] = [@ EXCEPT !.count = Len(found), !.attempts = 1,
                                                        !.call = Calls(cmds) + 1,
                                                        !.snapshot = saved, !.pc = "write"]]
           ELSE /\ urls' = urls
                /\ cmds' = [cmds EXCEPT ![k] =
                               ReplyResult([@ EXCEPT !.count = Len(found), !.attempts = 1,
                                                      !.call = Calls(cmds) + 1],
                                           replyOk, innerOk)]
    /\ UNCHANGED <<now, isInitialized, messages, commands, cacheVars, routerVars, storageFile,
                   proc, flatStore>>
\* a write whose failure puts the index back to what the document holds
WriteReturnsRollsBack(k, ok, replyOk, innerOk) ==
    /\ proc.state = "serving"
    /\ cmds[k].pc = "write"
    /\ storageFile' = IF ok THEN [state |-> "valid", doc |-> urlData(cmds[k], urls)]
                      ELSE storageFile
    /\ urls' = IF ok THEN urls ELSE storageFile.doc
    /\ cmds' = [cmds EXCEPT ![k] =
                   ReplyResult([@ EXCEPT !.wrote = IF ok THEN "ok" ELSE "failed"],
                               replyOk, innerOk)]
    /\ UNCHANGED <<now, isInitialized, messages, commands, cacheVars, routerVars, proc,
                   flatStore>>

\* urlStore.js lines 50-58 and notificator.js lines 330-364: fs.writeFile returns; a
\* rejection is caught inside saveUrls, which returns 0, so the loop of the command sees a
\* save either way
WriteReturns(k, ok, replyOk, innerOk) ==
    /\ proc.state = "serving"
    /\ cmds[k].pc = "write"
    /\ storageFile' = IF ok THEN [state |-> "valid", doc |-> urlData(cmds[k], urls)]
                      ELSE storageFile
    /\ cmds' = [cmds EXCEPT ![k] =
                   ReplyResult([@ EXCEPT !.wrote = IF ok THEN "ok" ELSE "failed"],
                               replyOk, innerOk)]
    /\ UNCHANGED <<now, storeVars, cacheVars, routerVars, proc, flatStore>>

Init ==
    /\ now = 0
    /\ isInitialized \in BOOLEAN
    /\ urls = <<>>
    /\ messages = <<>>
    /\ commands = 0
    /\ threadNameCache = NoEntries
    /\ handlers = [h \in 1..MaxHandlers |-> IdleHandler]
    /\ lastSweep = NoSweep
    /\ autoDeleteEnv = 1
    /\ rateLimitMap = NoEntries
    /\ routing = [h \in 1..MaxHandlers |-> NoRouting]
    /\ notices = <<>>
    /\ posted = 0
    /\ storageFile = EmptyDocument
    /\ cmds = <<>>
    /\ proc = Serving
    /\ flatStore = Constructed

Next ==
    \/ \E a \in Authors, c \in Threads, content \in Contents :
          MessageCreate(a, c, content) /\ UNCHANGED <<routerVars, ioVars>>
    \/ \E k \in 1..Len(messages) : DeleteMessage(k) /\ UNCHANGED <<routerVars, ioVars>>
    \/ \E k \in 1..Len(messages) : checkAndStoreUrls(k) /\ UNCHANGED <<routerVars, ioVars>>
    \/ \E k \in 1..Len(messages) : ClassifyUrl(k) /\ UNCHANGED <<routerVars, ioVars>>
    \/ \E k \in 1..Len(messages) : StoreUrls(k) /\ UNCHANGED <<routerVars, ioVars>>
    \/ \E target \in Threads \cup {MAIN_CHANNEL_ID} :
          FetchLinks(target) /\ UNCHANGED <<routerVars, ioVars>>
    \/ Tick /\ UNCHANGED <<routerVars, ioVars>>

Spec == Init /\ [][Next]_vars

(***************************************************************************)
(* The thread name cache on its own: handlers acquire and release names    *)
(* while the cleanup runs and time passes.                                 *)
(***************************************************************************)
NextCache ==
    \/ \E h \in 1..MaxHandlers, threadId \in Threads :
          GetThreadName(h, threadId) /\ UNCHANGED <<routerVars, ioVars>>
    \/ \E h \in 1..MaxHandlers, found \in BOOLEAN :
          FetchReturns(h, found) /\ UNCHANGED <<routerVars, ioVars>>
    \/ \E h \in 1..MaxHandlers : Done(h) /\ UNCHANGED <<routerVars, ioVars>>
    \/ CacheCleanup /\ UNCHANGED <<routerVars, ioVars>>
    \/ Tick /\ UNCHANGED <<routerVars, ioVars>>

InitCache == Init /\ isInitialized

SpecCache == InitCache /\ [][NextCache]_vars

(***************************************************************************)
(* The router with the thread name cache and the rate limiter: members    *)
(* post in forum threads while notices' timers run.  Date.now() is         *)
(* positive, so the clock starts at 1.                                     *)
(***************************************************************************)
InitRouter ==
    /\ now = 1
    /\ isInitialized = TRUE
    /\ urls = <<>>
    /\ messages = <<>>
    /\ commands = 0
    /\ threadNameCache = NoEntries
    /\ handlers = [h \in 1..MaxHandlers |-> IdleHandler]
    /\ lastSweep = NoSweep
    /\ autoDeleteEnv \in {0, 1}
    /\ rateLimitMap = NoEntries
    /\ routing = [h \in 1..MaxHandlers |-> NoRouting]
    /\ notices = <<>>
    /\ posted = 0
    /\ storageFile = EmptyDocument
    /\ cmds = <<>>
    /\ proc = Serving
    /\ flatStore = Constructed

NextRouter ==
    \/ \E h \in 1..MaxHandlers, a \in Members, c \in RouterThreads :
          RouterMessage(h, a, MemberRoles[a], c) /\ UNCHANGED ioVars
    \/ \E h \in 1..MaxHandlers, found \in BOOLEAN :
          FetchReturns(h, found) /\ UNCHANGED <<routerVars, ioVars>>
    \/ \E h \in 1..MaxHandlers : Route(h) /\ UNCHANGED ioVars
    \/ \E h \in 1..MaxHandlers, replyOk \in BOOLEAN, deletable \in BOOLEAN :
          ReplyReturns(h, replyOk, deletable) /\ UNCHANGED ioVars
    \/ \E h \in 1..MaxHandlers, deleteOk \in BOOLEAN, deletable \in BOOLEAN :
          DeleteReturns(h, deleteOk, deletable) /\ UNCHANGED ioVars
    \/ \E h \in 1..MaxHandlers, deleteOk \in BOOLEAN :
          CatchDeleteReturns(h, deleteOk) /\ UNCHANGED ioVars
    \/ \E h \in 1..MaxHandlers : Finally(h) /\ UNCHANGED ioVars
    \/ \E n \in 1..Len(notices), deletable \in BOOLEAN, deleteOk \in BOOLEAN :
          AutoDelete(n, deletable, deleteOk) /\ UNCHANGED ioVars
    \/ TickRouter /\ UNCHANGED ioVars

SpecRouter == InitRouter /\ [][NextRouter]_vars

(***************************************************************************)
(* The router together with the delayed check and the "!fetch links"       *)
(* command: messages with links go through the router, and the ones in     *)
(* their right thread get their check.  The clock is the router's (ticks   *)
(* of half a second); URL_CHECK_TIMEOUT is one tick, as with the setting   *)
(* URL_CHECK_TIMEOUT=500.                                                  *)
(***************************************************************************)
MaxIntakeTime == 2

TickIntake ==
    /\ now < MaxIntakeTime
    /\ now' = now + 1
    /\ UNCHANGED <<storeVars, cacheVars, routerVars, ioVars>>

NextIntake ==
    \/ \E h \in 1..MaxHandlers, a \in Members, c \in RouterThreads :
          RouterMessage(h, a, MemberRoles[a], c) /\ UNCHANGED ioVars
    \/ \E h \in 1..MaxHandlers, found \in BOOLEAN :
          FetchReturns(h, found) /\ UNCHANGED <<routerVars, ioVars>>
    \/ \E h \in 1..MaxHandlers : RouteAndSchedule(h, <<U1>>) /\ UNCHANGED ioVars
    \/ \E h \in 1..MaxHandlers, replyOk \in BOOLEAN, deletable \in BOOLEAN :
          ReplyReturns(h, replyOk, deletable) /\ UNCHANGED ioVars
    \/ \E h \in 1..MaxHandlers, deleteOk \in BOOLEAN, deletable \in BOOLEAN :
          DeleteReturns(h, deleteOk, deletable) /\ UNCHANGED ioVars
    \/ \E h \in 1..MaxHandlers, deleteOk \in BOOLEAN :
          CatchDeleteReturns(h, deleteOk) /\ UNCHANGED ioVars
    \/ \E h \in 1..MaxHandlers : Finally(h) /\ UNCHANGED ioVars
    \/ \E k \in 1..Len(messages) : checkAndStoreUrls(k) /\ UNCHANGED <<routerVars, ioVars>>
    \/ \E k \in 1..Len(messages) : ClassifyUrl(k) /\ UNCHANGED <<routerVars, ioVars>>
    \/ \E k \in 1..Len(messages) : StoreUrls(k) /\ UNCHANGED <<routerVars, ioVars>>
    \/ \E target \in RouterThreads : FetchLinks(target) /\ UNCHANGED <<routerVars, ioVars>>
    \/ TickIntake

SpecIntake == InitRouter /\ [][NextIntake]_vars

(***************************************************************************)
(* The link store under arbitrary calls of its methods.                    *)
(***************************************************************************)
(***************************************************************************)
(* The Deduplication Engine on its own: the delayed checks of messages     *)
(* that hold one link, two links, or one link twice, with every record     *)
(* written by handleUrlMessage.                                            *)
(***************************************************************************)
\* message.content.match(urlRegex) keeps every occurrence of a link
BatchContents == {<<U1>>, <<U2, U1>>, <<U1, U1>>}

NextEngine ==
    \/ \E a \in Authors, c \in Threads, content \in BatchContents :
          MessageCreate(a, c, content) /\ UNCHANGED <<routerVars, ioVars>>
    \/ \E k \in 1..Len(messages) : DeleteMessage(k) /\ UNCHANGED <<routerVars, ioVars>>
    \/ \E k \in 1..Len(messages) : checkAndStoreUrls(k) /\ UNCHANGED <<routerVars, ioVars>>
    \/ \E k \in 1..Len(messages) : ClassifyUrl(k) /\ UNCHANGED <<routerVars, ioVars>>
    \/ \E k \in 1..Len(messages) : StoreUrls(k) /\ UNCHANGED <<routerVars, ioVars>>
    \/ Tick /\ UNCHANGED <<routerVars, ioVars>>

SpecEngine == Init /\ [][NextEngine]_vars
(***************************************************************************)
(* The delayed check with the retries of checkMessageExists.               *)
(***************************************************************************)
NextExists ==
    \/ \E a \in Authors, c \in Threads, content \in Contents :
          MessageCreate(a, c, content) /\ UNCHANGED <<routerVars, ioVars>>
    \/ \E k \in 1..Len(messages) : DeleteMessage(k) /\ UNCHANGED <<routerVars, ioVars>>
    \/ \E k \in 1..Len(messages) : FetchMessage(k) /\ UNCHANGED <<routerVars, ioVars>>
    \/ \E k \in 1..Len(messages) : ClassifyUrl(k) /\ UNCHANGED <<routerVars, ioVars>>
    \/ \E k \in 1..Len(messages) : StoreUrls(k) /\ UNCHANGED <<routerVars, ioVars>>
    \/ Tick /\ UNCHANGED <<routerVars, ioVars>>

SpecExists == Init /\ [][NextExists]_vars
(***************************************************************************)
(* The delayed check of messages that their authors edit.                  *)
(***************************************************************************)
PostedContents == {<<U1>>, <<U2, U1>>}
EditedContents == {<<>>, <<U2>>}

NextEdit ==
    \/ \E a \in Authors, c \in Threads, content \in PostedContents :
          MessageCreate(a, c, content) /\ UNCHANGED <<routerVars, ioVars>>
    \/ \E k \in 1..Len(messages), content \in EditedContents :
          EditMessage(k, content) /\ UNCHANGED <<routerVars, ioVars>>
    \/ \E k \in 1..Len(messages) : DeleteMessage(k) /\ UNCHANGED <<routerVars, ioVars>>
    \/ \E k \in 1..Len(messages) : checkAndStoreUrls(k) /\ UNCHANGED <<routerVars, ioVars>>
    \/ \E k \in 1..Len(messages) : ClassifyUrl(k) /\ UNCHANGED <<routerVars, ioVars>>
    \/ \E k \in 1..Len(messages) : StoreUrls(k) /\ UNCHANGED <<routerVars, ioVars>>
    \/ Tick /\ UNCHANGED <<routerVars, ioVars>>

SpecEdit == Init /\ [][NextEdit]_vars

NextStore ==
    \/ \E c \in Threads : \E batch \in StoreBatches(c, now) :
          SaveUrlsCall(c, batch) /\ UNCHANGED ioVars
    \/ \E u \in {U1, U2}, c \in Threads : AddUrlCall(u, c, "A") /\ UNCHANGED ioVars
    \/ CleanupCall /\ UNCHANGED ioVars
    \/ Tick /\ UNCHANGED <<routerVars, ioVars>>

SpecStore == Init /\ [][NextStore]_vars

(***************************************************************************)
(* The class UrlStore on its own.  The clock is the one of the store.       *)
(***************************************************************************)
NextUrlStore ==
    \/ \E u \in {U1, U2}, c \in Threads : UrlStoreAddUrl(u, c)
    \/ \E u \in {U1, U2} : UrlStoreDeleteUrl(u)
    \/ Tick /\ UNCHANGED <<routerVars, ioVars>>

SpecUrlStore == Init /\ [][NextUrlStore]_vars

(***************************************************************************)
(* The records of the bot over months.  The clock is the one of the store  *)
(* (one tick is 15 days).  The handlers save records; the ready handler of  *)
(* notificator.js schedules no sweep (lines 406-407), so cleanup is never   *)
(* called.                                                                  *)
(***************************************************************************)
MaxRetentionTime == 3

TickRetention ==
    /\ now < MaxRetentionTime
    /\ now' = now + 1
    /\ UNCHANGED <<storeVars, cacheVars, routerVars, ioVars>>

NextRetention ==
    \/ \E c \in Threads : \E batch \in StoreBatches(c, now) :
          SaveUrlsCall(c, batch) /\ UNCHANGED ioVars
    \/ TickRetention

SpecRetention == Init /\ [][NextRetention]_vars

(***************************************************************************)
(* The process from its start, the store with its document, and the        *)
(* "!fetch links" commands.  Messages arrive and are removed; their delayed *)
(* checks are left to Spec.                                                 *)
(***************************************************************************)
InitCommand ==
    /\ now = 0
    /\ isInitialized = FALSE
    /\ urls = <<>>
    /\ messages = <<>>
    /\ commands = 0
    /\ threadNameCache = NoEntries
    /\ handlers = [h \in 1..MaxHandlers |-> IdleHandler]
    /\ lastSweep = NoSweep
    /\ autoDeleteEnv = 1
    /\ rateLimitMap = NoEntries
    /\ routing = [h \in 1..MaxHandlers |-> NoRouting]
    /\ notices = <<>>
    /\ posted = 0
    /\ storageFile \in {AbsentDocument, CorruptDocument, StoredDocument}
    /\ cmds = <<>>
    /\ proc = Starting
    /\ flatStore = Constructed

NextCommand ==
    \/ \E mkdirOk \in BOOLEAN, forumOk \in BOOLEAN : Ready(mkdirOk, forumOk)
    \/ \E c \in Threads :
          /\ proc.state = "serving"
          /\ MessageCreate("A", c, IF c = "c1" THEN <<U1>> ELSE <<U2, U1>>)
          /\ UNCHANGED <<routerVars, ioVars>>
    \/ \E k \in 1..Len(messages) :
          proc.state = "serving" /\ DeleteMessage(k) /\ UNCHANGED <<routerVars, ioVars>>
    \/ \E argc \in Argcs, target \in Threads \cup {MAIN_CHANNEL_ID, Undefined},
          replyOk \in BOOLEAN : CommandArrives(argc, target, replyOk)
    \/ \E k \in 1..Len(cmds), found \in BOOLEAN, replyOk \in BOOLEAN :
          ChannelFetched(k, found, replyOk)
    \/ \E k \in 1..Len(cmds), scanOk \in BOOLEAN, replyOk \in BOOLEAN, innerOk \in BOOLEAN :
          ScanAndSave(k, scanOk, replyOk, innerOk)
    \/ \E k \in 1..Len(cmds), ok \in BOOLEAN, replyOk \in BOOLEAN, innerOk \in BOOLEAN :
          WriteReturns(k, ok, replyOk, innerOk)
    \/ UncaughtException
    \/ UnhandledRejection

SpecCommand == InitCommand /\ [][NextCommand]_vars

(***************************************************************************)
(* Claims.                                                                 *)
(***************************************************************************)
\* the step classifies link i of message k
Classified(k) ==
    /\ messages[k].pc = "loop"
    /\ Len(messages'[k].out) = Len(messages[k].out) + 1

\* the record the lookup of that link finds, <<>> if none
Looked(k) == findUrlHistory(isInitialized, urls, messages[k].urls[messages[k].i])

\* the outcome of the step
Decided(k) == messages'[k].out[Len(messages'[k].out)]

\* the number of records of a list that hold the URL
Count(list, url) == Cardinality({p \in 1..Len(list) : list[p].url = url})

\* the record was written by handleUrlMessage for its source message
WrittenByEngine(r) ==
    /\ r.messageId \in 1..Len(messages)
    /\ r = NewUrlRecord(r.url, messages[r.messageId], r.messageId)

\* the message the record points at is still there
OriginalThere(r) ==
    r.messageId \in 1..Len(messages) /\ messages[r.messageId].exists

\* the check of message k has ended after handleUrlMessage ran
Handled(k) == messages[k].pc = "done" /\ messages[k].result # "skipped"

\* once the check of a message has ended, nothing of it changes but the message's existence
EndedForGood(k) ==
    messages[k].pc = "done" =>
        messages'[k] = [messages[k] EXCEPT !.exists = messages'[k].exists]

(* C1: a link with no record anywhere is classified as new, with no warning; *)
(* and once the check of a message that was still there has ended, the list  *)
(* of the posting channel holds exactly one record for every link classified *)
(* as new.  (Stated for an initialized store only.)                          *)
C1_NewIsAccepted ==
    [][\A k \in 1..Len(messages) :
          Classified(k) /\ Looked(k) = <<>> =>
              /\ Decided(k) = "AcceptNew"
              /\ messages'[k].replies = messages[k].replies]_vars

C1_NewIsCommitted ==
    [](isInitialized =>
          \A k \in 1..Len(messages) :
              Handled(k) =>
                  \A j \in 1..Len(messages[k].out) :
                      messages[k].out[j] = "AcceptNew" =>
                          Count(MapGet(urls, messages[k].channel), messages[k].urls[j]) = 1)

C1_NewUrlCommitted == C1_NewIsAccepted /\ C1_NewIsCommitted

(* C2: a check that fires after its message was removed ends at once as      *)
(* skipped: no link is looked up, nothing is replied, nothing is staged and  *)
(* the store is as before; and nothing of that check happens later.          *)
C2_RemovedMessageDiscarded ==
    [][\A k \in 1..Len(messages) :
          /\ (messages[k].pc = "timer" /\ ~messages[k].exists /\ messages'[k].pc # "timer") =>
                /\ messages'[k].pc = "done"
                /\ messages'[k].result = "skipped"
                /\ messages'[k].out = <<>>
                /\ messages'[k].replies = <<>>
                /\ messages'[k].urlsToStore = <<>>
                /\ urls' = urls
          /\ EndedForGood(k)]_vars

C2_Witness ==
    \E k \in 1..Len(messages) :
        /\ messages[k].result = "skipped"
        /\ ~messages[k].exists
        /\ urls # <<>>

(* C3: a link recorded by the engine, reposted by the same author in the     *)
(* same channel while the original message is there, is answered with        *)
(* Warn-SameAuthorSameThread-OriginalExists and the store is not altered.    *)
C3_SameThreadOriginalExists ==
    [][\A k \in 1..Len(messages) :
          (/\ Classified(k)
           /\ Looked(k) # <<>>
           /\ Looked(k)[1].messageId # k
           /\ WrittenByEngine(Looked(k)[1])
           /\ Looked(k)[1].author = messages[k].author
           /\ Looked(k)[1].threadId = messages[k].channel
           /\ OriginalThere(Looked(k)[1])) =>
              /\ Decided(k) = "WarnSameAuthorSameThreadOriginalExists"
              /\ urls' = urls
              /\ messages'[k].urlsToStore = messages[k].urlsToStore]_vars

(* C4: a link whose record has another author is answered with               *)
(* Warn-DifferentAuthor in whatever channel it is reposted; the step stages  *)
(* no record for it and leaves the store as it is.                           *)
C4_DifferentAuthor ==
    [][\A k \in 1..Len(messages) :
          (/\ Classified(k)
           /\ Looked(k) # <<>>
           /\ Looked(k)[1].author # messages[k].author) =>
              /\ Decided(k) = "WarnDifferentAuthor"
              /\ urls' = urls
              /\ messages'[k].urlsToStore = messages[k].urlsToStore]_vars

C4_Witness ==
    \E k \in 1..Len(messages) : \E j \in 1..Len(messages[k].out) :
        /\ messages[k].out[j] = "WarnDifferentAuthor"
        /\ messages[k].pc = "done"
        /\ messages[k].result = "returned"
        /\ \E c \in 1..Len(urls) : \E p \in 1..Len(urls[c].list) :
              /\ urls[c].list[p].url = messages[k].urls[j]
              /\ urls[c].list[p].author # messages[k].author
              /\ urls[c].list[p].threadId # messages[k].channel

(* C5: same author, same channel, original message gone, age below           *)
(* THRESHOLD_DUPE_AGE: the outcome is Accept-New-AfterPurge, the old record  *)
(* is purged and a record pointing at the new message is staged.             *)
C5_PurgeAndAccept ==
    [][\A k \in 1..Len(messages) :
          (/\ Classified(k)
           /\ Looked(k) # <<>>
           /\ Looked(k)[1].messageId # k
           /\ Looked(k)[1].author = messages[k].author
           /\ Looked(k)[1].threadId = messages[k].channel
           /\ ~OriginalThere(Looked(k)[1])
           /\ now - Looked(k)[1].timestamp < THRESHOLD_DUPE_AGE) =>
              /\ Decided(k) = "AcceptNewAfterPurge"
              /\ FindInMap(urls', messages[k].urls[messages[k].i]) # <<Looked(k)[1]>>
              /\ messages'[k].pc = "loop"
              /\ \E p \in 1..Len(messages'[k].urlsToStore) :
                    /\ messages'[k].urlsToStore[p].url = messages[k].urls[messages[k].i]
                    /\ messages'[k].urlsToStore[p].messageId = k]_vars

(* C6: same author, same channel, original message gone, age at or above     *)
(* THRESHOLD_DUPE_AGE: the outcome is                                        *)
(* Warn-SameAuthorSameThread-OriginalGoneStale, nothing is staged and the    *)
(* store is unchanged.                                                       *)
C6_StaleIsWarned ==
    [][\A k \in 1..Len(messages) :
          (/\ Classified(k)
           /\ Looked(k) # <<>>
           /\ Looked(k)[1].messageId # k
           /\ Looked(k)[1].author = messages[k].author
           /\ Looked(k)[1].threadId = messages[k].channel
           /\ ~OriginalThere(Looked(k)[1])
           /\ now - Looked(k)[1].timestamp >= THRESHOLD_DUPE_AGE) =>
              /\ Decided(k) = "WarnSameAuthorSameThreadOriginalGoneStale"
              /\ urls' = urls
              /\ messages'[k].urlsToStore = messages[k].urlsToStore]_vars

(* C7: same author, record from another channel: the outcome is              *)
(* Warn-SameAuthorDifferentThread and nothing is staged or stored; and that  *)
(* outcome is given only when the record's channel differs from the current  *)
(* one.                                                                      *)
C7_DifferentThreadOnly ==
    [][\A k \in 1..Len(messages) :
          (Classified(k) /\ Looked(k) # <<>> /\ Looked(k)[1].messageId # k) =>
              /\ (/\ Looked(k)[1].author = messages[k].author
                  /\ Looked(k)[1].threadId # messages[k].channel) =>
                     /\ Decided(k) = "WarnSameAuthorDifferentThread"
                     /\ urls' = urls
                     /\ messages'[k].urlsToStore = messages[k].urlsToStore
              /\ Decided(k) = "WarnSameAuthorDifferentThread" =>
                     Looked(k)[1].threadId # messages[k].channel]_vars

\* the blocklist value, trimmed and in lower case, is the one character "t"
C8_Matches(k) ==
    \E j \in 1..Len(messages[k].urls) : \E p \in 1..Len(messages[k].urls[j]) :
        messages[k].urls[j][p] \in {"t", "T"}

(* C8 as claimed: a message with a link that matches the blocklist is        *)
(* answered with the rejection notice and deleted, and none of its links is  *)
(* looked up, warned about or staged.                                        *)
C8_RejectedAndDeleted ==
    \A k \in 1..Len(messages) :
        (Handled(k) /\ C8_Matches(k)) =>
            /\ messages[k].replies = <<"Rejected">>
            /\ ~messages[k].exists
            /\ messages[k].out = <<>>
            /\ messages[k].urlsToStore = <<>>

(* C8, amended: when a link of the message matches the blocklist, the check  *)
(* ends in its first step: no link is looked up, warned about or staged and  *)
(* the store is untouched, then and later.  The message is deleted only      *)
(* after the rejection notice was sent, and only if it is deletable and the  *)
(* delete succeeds; otherwise it stays.                                      *)
C8_BlocklistShortCircuit ==
    [][\A k \in 1..Len(messages) :
          /\ (/\ messages[k].pc = "timer"
              /\ messages'[k].pc # "timer"
              /\ messages'[k].result # "skipped"
              /\ C8_Matches(k)) =>
                /\ messages'[k].pc = "done"
                /\ messages'[k].out = <<>>
                /\ messages'[k].urlsToStore = <<>>
                /\ urls' = urls
                /\ messages'[k].result \in {"rejected", "rejected-kept", "error"}
                /\ messages'[k].replies \in {<<>>, <<"Rejected">>}
                /\ messages'[k].result = "rejected" =>
                      messages'[k].replies = <<"Rejected">> /\ ~messages'[k].exists
                /\ messages'[k].result # "rejected" =>
                      messages'[k].exists = messages[k].exists
                /\ messages'[k].result = "rejected-kept" =>
                      messages'[k].replies = <<"Rejected">>
          /\ EndedForGood(k)]_vars

C8_Witness ==
    \E k \in 1..Len(messages) :
        /\ messages[k].result = "rejected"
        /\ messages[k].replies = <<"Rejected">>
        /\ ~messages[k].exists
        /\ Len(messages[k].urls) = 2
        /\ urls # <<>>

(* C9: the pendingOps of every entry of the thread name cache is never       *)
(* negative.                                                                 *)
C9_PendingOpsNonNegative ==
    \A t \in DOMAIN threadNameCache : threadNameCache[t].pendingOps >= 0

(* C10: an entry leaves the cache only in a run of the cleanup, and a run of *)
(* the cleanup removes an entry exactly when its TTL has elapsed and its     *)
(* pendingOps is 0.                                                          *)
C10_EvictsExactlyExpiredIdle ==
    [][\A t \in DOMAIN threadNameCache :
          LET elapsed == now - threadNameCache[t].timestamp > THREAD_CACHE_TTL
              idle == threadNameCache[t].pendingOps = 0
          IN  /\ t \notin DOMAIN threadNameCache' => CacheCleanup
              /\ CacheCleanup => (t \notin DOMAIN threadNameCache' <=> (elapsed /\ idle))]_vars

C10_Witness ==
    /\ lastSweep.at = now
    /\ lastSweep.deleted # {}
    /\ \E t \in DOMAIN threadNameCache :
          /\ now - threadNameCache[t].timestamp > THREAD_CACHE_TTL
          /\ threadNameCache[t].pendingOps > 0

(* C11: every handler releases the thread name exactly once on its way out,  *)
(* so that whenever no handler is in flight every cache entry's pendingOps   *)
(* is 0.                                                                     *)
C11_ReleasedWhenIdle ==
    (\A h \in 1..MaxHandlers : handlers[h].pc = "idle") =>
        \A t \in DOMAIN threadNameCache : threadNameCache[t].pendingOps = 0

(* C12: when the lookup of getThreadName fails, the raw thread id is the     *)
(* name returned and the cache is left as it was, so the thread gets no      *)
(* entry from the failure; and a call for a thread that has no entry queries *)
(* the directory.                                                            *)
C12_FailedLookupNotCached ==
    [][\A h \in 1..MaxHandlers :
          /\ (handlers[h].pc = "fetching" /\ handlers'[h].pc = "fallback") =>
                /\ handlers'[h].name = handlers[h].threadId
                /\ threadNameCache' = threadNameCache
          /\ (/\ handlers[h].pc = "idle"
              /\ handlers'[h].pc # "idle"
              /\ handlers'[h].threadId \notin DOMAIN threadNameCache) =>
                handlers'[h].pc = "fetching"]_vars

C12_Witness ==
    \E h \in 1..MaxHandlers, g \in 1..MaxHandlers :
        /\ handlers[h].pc = "fallback"
        /\ handlers[h].name = handlers[h].threadId
        /\ handlers[h].threadId \notin DOMAIN threadNameCache
        /\ handlers[g].pc = "fetching"
        /\ handlers[g].threadId = handlers[h].threadId

\* handler h makes its rate limiter call and the routing checks in this step
Routes(h) == routing[h].stage = "arrived" /\ routing'[h].stage # "arrived"

(* C13 as claimed: a call is accepted exactly when the actor has no accepted *)
(* timestamp or the time since it exceeds the cooldown.                      *)
C13_AcceptedIffExceeds ==
    [][\A h \in 1..MaxHandlers :
          Routes(h) =>
             (~routing'[h].limited <=>
                 \/ routing[h].author \notin DOMAIN rateLimitMap
                 \/ now - rateLimitMap[routing[h].author] > RATE_LIMIT_COOLDOWN)]_vars

(* C13, amended: a call is accepted exactly when the actor has no accepted   *)
(* timestamp or the time since it is at least the cooldown; an accepted call *)
(* stores the time of the call as the actor's timestamp.                     *)
C13_AcceptedIffCooldownOver ==
    [][\A h \in 1..MaxHandlers :
          Routes(h) =>
             /\ ~routing'[h].limited <=>
                   \/ routing[h].author \notin DOMAIN rateLimitMap
                   \/ now - rateLimitMap[routing[h].author] >= RATE_LIMIT_COOLDOWN
             /\ ~routing'[h].limited =>
                   /\ routing[h].author \in DOMAIN rateLimitMap'
                   /\ rateLimitMap'[routing[h].author] = now]_vars

C13_Witness ==
    \E h \in 1..MaxHandlers, g \in 1..MaxHandlers :
        /\ routing[h].id = 1
        /\ routing[h].stage \notin {"none", "arrived"}
        /\ ~routing[h].limited
        /\ routing[g].id = 2
        /\ routing[g].author = routing[h].author
        /\ routing[g].limited

(* C14: a rejected call leaves rateLimitMap as it was; the map changes only  *)
(* in an accepted call, and then only in the entry of the calling actor.     *)
C14_RejectionKeepsState ==
    [][/\ \A h \in 1..MaxHandlers :
             Routes(h) =>
                /\ routing'[h].limited => rateLimitMap' = rateLimitMap
                /\ \A u \in Members \ {routing[h].author} :
                      /\ u \in DOMAIN rateLimitMap' <=> u \in DOMAIN rateLimitMap
                      /\ u \in DOMAIN rateLimitMap => rateLimitMap'[u] = rateLimitMap[u]
       /\ rateLimitMap' # rateLimitMap =>
             \E h \in 1..MaxHandlers : Routes(h) /\ ~routing'[h].limited]_vars

C14_Witness ==
    \E h \in 1..MaxHandlers :
        /\ routing[h].limited
        /\ rateLimitMap[routing[h].author] < now
        /\ now - rateLimitMap[routing[h].author] < RATE_LIMIT_COOLDOWN

\* the tiers whose role the member holds
HeldTiers(roles) == {i \in Tiers : ROLE_ID[i] \in roles}
HighestTier(roles) == CHOOSE i \in HeldTiers(roles) : \A j \in HeldTiers(roles) : j <= i

\* the message of handler h got no correction notice and was not deleted
Untouched(h) ==
    /\ routing[h].notice = 0
    /\ ~routing[h].deleted
    /\ \A n \in 1..Len(notices) : notices[n].replyTo # routing[h].id

\* nothing is done to a message whose decision is not Misrouted
AllowedIsUntouched ==
    \A h \in 1..MaxHandlers :
        (routing[h].stage # "none" /\ routing[h].decision # "Misrouted") => Untouched(h)

(* C15 as claimed: a member holding tier 3's role is Allowed in tier 3's     *)
(* thread (no notice, no deletion) and Misrouted, with tier 3's thread as    *)
(* the correct one, in any other thread.                                     *)
C15_Tier3Routed ==
    [][\A h \in 1..MaxHandlers :
          (Routes(h) /\ ROLE_ID[3] \in routing[h].roles) =>
             /\ routing[h].channel = THREAD_ID[3] => routing'[h].decision # "Misrouted"
             /\ routing[h].channel # THREAD_ID[3] =>
                   /\ routing'[h].decision = "Misrouted"
                   /\ routing'[h].correctThreadId = THREAD_ID[3]]_vars

(* C15, amended: a member whose highest tier is 3 is Allowed in tier 3's     *)
(* thread (no notice, no deletion); in any other thread the member is        *)
(* Misrouted with tier 3's thread as the correct one, provided the rate      *)
(* limiter accepted the call and the member holds no ignored role.           *)
C15_HighestTier3Routed ==
    [][/\ \A h \in 1..MaxHandlers :
             (Routes(h) /\ HeldTiers(routing[h].roles) # {}
                        /\ HighestTier(routing[h].roles) = 3) =>
                /\ routing[h].channel = THREAD_ID[3] => routing'[h].decision # "Misrouted"
                /\ (/\ routing[h].channel # THREAD_ID[3]
                    /\ ~routing'[h].limited
                    /\ routing[h].roles \cap ignoredRoles = {}) =>
                      /\ routing'[h].decision = "Misrouted"
                      /\ routing'[h].correctThreadId = THREAD_ID[3]
       /\ AllowedIsUntouched']_vars

C15_Witness ==
    \E h \in 1..MaxHandlers, g \in 1..MaxHandlers :
        /\ routing[h].roles = {ROLE_ID[3]}
        /\ routing[h].channel = THREAD_ID[3]
        /\ routing[h].decision = "Allowed"
        /\ Untouched(h)
        /\ routing[g].roles = {ROLE_ID[3]}
        /\ routing[g].channel # THREAD_ID[3]
        /\ routing[g].decision = "Misrouted"
        /\ routing[g].correctThreadId = THREAD_ID[3]

(* C16: the tier of a member is the highest tier in 0..5 whose role the      *)
(* member holds, and it decides the routing of an accepted call of a member  *)
(* without ignored role; a member holding none of the six roles is never     *)
(* Misrouted, gets no notice and keeps the message.                          *)
C16_HighestTierDecides ==
    [][/\ \A h \in 1..MaxHandlers :
             Routes(h) =>
                LET roles == routing[h].roles
                IN  /\ HeldTiers(roles) = {} =>
                          /\ findHighestRole(roles) = -1
                          /\ routing'[h].decision # "Misrouted"
                    /\ HeldTiers(roles) # {} =>
                          /\ findHighestRole(roles) = HighestTier(roles)
                          /\ (~routing'[h].limited /\ roles \cap ignoredRoles = {}) =>
                                /\ routing'[h].decision = "Misrouted" <=>
                                      routing[h].channel # THREAD_ID[HighestTier(roles)]
                                /\ routing'[h].decision = "Misrouted" =>
                                      routing'[h].correctThreadId = THREAD_ID[HighestTier(roles)]
       /\ AllowedIsUntouched']_vars

C16_Witness ==
    \E h \in 1..MaxHandlers, g \in 1..MaxHandlers :
        /\ {ROLE_ID[3], ROLE_ID[5]} \subseteq routing[h].roles
        /\ routing[h].channel = THREAD_ID[3]
        /\ routing[h].decision = "Misrouted"
        /\ routing[h].correctThreadId = THREAD_ID[5]
        /\ HeldTiers(routing[g].roles) = {}
        /\ routing[g].decision = "NoRole"
        /\ Untouched(g)

(* C17: a member holding a role of the ignore set is never Misrouted,        *)
(* whatever tier roles the member holds and wherever the message is posted;  *)
(* the message gets no notice and is not deleted.                            *)
C17_IgnoredRoleSkipsRouting ==
    [][/\ \A h \in 1..MaxHandlers :
             (Routes(h) /\ routing[h].roles \cap ignoredRoles # {}) =>
                routing'[h].decision \in {"Ignored", "RateLimited"}
       /\ AllowedIsUntouched']_vars

C17_Witness ==
    \E h \in 1..MaxHandlers :
        /\ routing[h].roles \cap ignoredRoles # {}
        /\ HeldTiers(routing[h].roles) # {}
        /\ routing[h].channel # THREAD_ID[HighestTier(routing[h].roles)]
        /\ routing[h].decision = "Ignored"
        /\ routing[h].stage = "end"
        /\ Untouched(h)

(* C18: every Misrouted message gets a correction notice that names the      *)
(* correct thread, is deleted, and has the auto-deletion of its notice       *)
(* scheduled (for a delay setting above zero).                               *)
C18_MisroutedIsCorrected ==
    \A h \in 1..MaxHandlers :
        (routing[h].decision = "Misrouted" /\ routing[h].stage = "end") =>
            /\ routing[h].notice # 0
            /\ notices[routing[h].notice].replyTo = routing[h].id
            /\ notices[routing[h].notice].thread = routing[h].correctThreadId
            /\ routing[h].deleted
            /\ autoDeleteEnv > 0 => notices[routing[h].notice].timer # "none"

(* C19: with an auto-delete delay of zero no deletion of a correction notice *)
(* is scheduled and no notice is deleted.                                    *)
C19_ZeroDisablesAutoDelete ==
    autoDeleteEnv = 0 =>
        \A n \in 1..Len(notices) : notices[n].timer = "none" /\ notices[n].exists

(* C20: within one channel's list a URL appears at most once, whatever       *)
(* saveUrls, addUrl and cleanup calls were made: a URL that the channel      *)
(* holds, or that comes twice in a batch, is merged, not recorded again.     *)
C20_UrlOncePerChannel ==
    \A c \in 1..Len(urls) : \A i \in 1..Len(urls[c].list), j \in 1..Len(urls[c].list) :
        urls[c].list[i].url = urls[c].list[j].url => i = j

(***************************************************************************)
(* The store's lookup, deletion and the origin of records.                 *)
(***************************************************************************)
\* the positions of the channels, in the index, that hold a record with the URL
Holders(url) == {j \in 1..Len(urls) : HasUrl(urls[j].list, url)}

Lowest(S) == CHOOSE j \in S : \A i \in S : j <= i

\* the first record with the URL in a list that holds one
FirstMatch(list, url) == list[Lowest({i \in 1..Len(list) : list[i].url = url})]

\* C21: findUrlHistory returns null exactly when no channel holds a record with the URL;
\* otherwise it returns the matching record of the first channel, in the order in which
\* the channels entered the index, that holds the URL, whatever the timestamps are.
C21_FirstChannelInInsertionOrder ==
    \A u \in {U1, U2, UT} :
        /\ (findUrlHistory(isInitialized, urls, u) = <<>>) <=> (Holders(u) = {})
        /\ Holders(u) # {} =>
               findUrlHistory(isInitialized, urls, u)
                   = <<FirstMatch(urls[Lowest(Holders(u))].list, u)>>

\* two channels hold the URL, the first channel's record is the younger one, and the lookup
\* returns it
C21_Witness ==
    /\ Len(urls) = 2
    /\ Holders(U1) = {1, 2}
    /\ FirstMatch(urls[1].list, U1).timestamp > FirstMatch(urls[2].list, U1).timestamp
    /\ findUrlHistory(isInitialized, urls, U1) = <<FirstMatch(urls[1].list, U1)>>

\* the positions of the records of a list that do not hold the URL
Kept(list, url) == {i \in 1..Len(list) : list[i].url # url}

\* the k-th smallest member of a set of positions
Kth(S, k) == CHOOSE i \in S : Cardinality({j \in S : j <= i}) = k

\* the list without every record that holds the URL
WithoutAll(list, url) == [k \in 1..Cardinality(Kept(list, url)) |-> list[Kth(Kept(list, url), k)]]

\* the list without the first record that holds the URL
WithoutFirst(list, url) ==
    LET first == Lowest({i \in 1..Len(list) : list[i].url = url})
    IN  [k \in 1..(Len(list) - 1) |-> IF k < first THEN list[k] ELSE list[k + 1]]

\* C22 as stated: deleteUrl removes the first record that holds the URL and leaves every
\* other record, the other records with that URL included, in place.
C22_RemovesFirstMatchOnly ==
    \A u \in {U1, U2} :
        HasUrl(flatStore.urls, u) => deleteUrl(flatStore.urls, u) = WithoutFirst(flatStore.urls, u)

\* C22, amended: deleteUrl removes every record that holds the URL and leaves every other
\* record in place and in order.
C22_RemovesEveryMatch ==
    \A u \in {U1, U2} : deleteUrl(flatStore.urls, u) = WithoutAll(flatStore.urls, u)

\* two records hold the URL, a third does not, and the deletion leaves only the third
C22_Witness ==
    /\ Len(flatStore.urls) = 3
    /\ Cardinality(Kept(flatStore.urls, U1)) = 1
    /\ flatStore.urls[2].url = U2
    /\ deleteUrl(flatStore.urls, U1) = <<flatStore.urls[2]>>

\* the records of an index, each with the channel it is filed under
RecordsOf(m) ==
    UNION {{<<m[j].id, m[j].list[p]>> : p \in 1..Len(m[j].list)} : j \in 1..Len(m)}

\* the record is committed in this step by the delayed check of its source message, which
\* fired after the delay and found the message in place
CommittedByCheck(c, r) ==
    /\ r.messageId \in 1..Len(messages)
    /\ LET m == messages[r.messageId]
       IN  /\ m.pc = "loop"
           /\ messages'[r.messageId].pc = "done"
           /\ now >= m.createdTimestamp + URL_CHECK_TIMEOUT
           /\ c = m.channel
           /\ \E p \in 1..Len(m.urlsToStore) : m.urlsToStore[p] = r

\* the record is built in this step by a "!fetch links" command from a message in place
BuiltByCommand(c, r) ==
    /\ commands' = commands + 1
    /\ r.messageId \in 1..Len(messages)
    /\ LET m == messages[r.messageId]
       IN  /\ m.exists
           /\ c \in {m.channel, MAIN_CHANNEL_ID}
           /\ \E p \in 1..Len(m.urls) : m.urls[p] = r.url
           /\ r.timestamp = m.createdTimestamp
           /\ r.author = m.author
           /\ r.threadId = m.channel

\* C23 as stated: every record is created by the delayed check of its source message, which
\* fired after the delay and found the message in place; no other operation creates records.
C23_OnlyDelayedCommit ==
    [][\A e \in RecordsOf(urls') \ RecordsOf(urls) : CommittedByCheck(e[1], e[2])]_vars

\* C23, amended: every record is created either by the delayed check of its source message,
\* which fired after the delay and found the message in place, or by a "!fetch links"
\* command that read it from a message in place in the scanned channel.
C23_DelayedCommitOrCommand ==
    [][\A e \in RecordsOf(urls') \ RecordsOf(urls) :
          CommittedByCheck(e[1], e[2]) \/ BuiltByCommand(e[1], e[2])]_vars

\* a record in the store whose source message is still waiting for its check: the command
\* made it
C23_Witness ==
    \E e \in RecordsOf(urls) :
        /\ commands = 1
        /\ e[2].messageId \in 1..Len(messages)
        /\ messages[e[2].messageId].pc = "timer"
        /\ \E f \in RecordsOf(urls) :
              /\ f[2].messageId \in 1..Len(messages)
              /\ f[2].messageId # e[2].messageId
              /\ messages[f[2].messageId].result = "returned"

(***************************************************************************)
(* The "!fetch links" command, the document and the process.               *)
(***************************************************************************)
\* the commands whose handler moves in this step
Stepping == {k \in 1..Len(cmds') : k > Len(cmds) \/ cmds'[k] # cmds[k]}

\* every channel but the given one has the list it had
OthersKept(channel) ==
    \A c \in Threads \cup {MAIN_CHANNEL_ID} :
        c # channel => MapHas(urls', c) = MapHas(urls, c) /\ MapGet(urls', c) = MapGet(urls, c)

\* the record is one of a link of a message that is in place
FromMessageInPlace(r) ==
    /\ r.messageId \in 1..Len(messages)
    /\ messages[r.messageId].exists
    /\ \E p \in 1..Len(messages[r.messageId].urls) : messages[r.messageId].urls[p] = r.url
    /\ r.timestamp = messages[r.messageId].createdTimestamp
    /\ r.threadId = messages[r.messageId].channel

\* C24 as stated: handling a "!fetch links" command leaves the in-memory index and the
\* durable document unchanged, whatever its arguments and whatever the channel contains.
C24_CommandIsReadOnly ==
    [][Stepping # {} => urls' = urls /\ storageFile' = storageFile]_vars

\* C24, amended: the command fetches and saves.  A step of its handler only adds, to the
\* list of the target channel, records of links of messages in place; it removes no record
\* and leaves the lists of the other channels alone; the document changes only into the
\* text made from the index when saveUrls was called; and a command with a wrong number
\* of words, or whose channel is not found, or whose scan fails, or that meets a store
\* that is not initialized, changes neither.
C24_CommandOnlyAdds ==
    [][\A k \in Stepping :
          /\ OthersKept(cmds'[k].target)
          /\ RecordsOf(urls) \subseteq RecordsOf(urls')
          /\ \A e \in RecordsOf(urls') \ RecordsOf(urls) :
                e[1] = cmds'[k].target /\ FromMessageInPlace(e[2])
          /\ storageFile' # storageFile =>
                storageFile' = [state |-> "valid", doc |-> cmds[k].snapshot]
          /\ (~ArgsValid(cmds'[k].argc) \/ ~isInitialized
                  \/ (cmds'[k].pc = "done" /\ cmds'[k].attempts = 0)) =>
                urls' = urls /\ storageFile' = storageFile]_vars

\* a command has added records to a channel beside another channel's list, and the document
\* holds them
C24_Witness ==
    \E k \in 1..Len(cmds) :
        /\ cmds[k].pc = "done"
        /\ cmds[k].wrote = "ok"
        /\ cmds[k].target = "c1"
        /\ MapHas(urls, "c2")
        /\ storageFile = [state |-> "valid", doc |-> urls]
        /\ \E e \in RecordsOf(urls) : e[1] = "c1" /\ e[2].messageId > 0

\* the text is among the replies of the command
Replied(c, text) == \E p \in 1..Len(c.replies) : c.replies[p] = text

\* C25: when the write of the document fails, the save is tried 3 times in all, the
\* command then reports an error and not a success, and the process keeps running.
C25_FailedWriteRetriedAndSurfaced ==
    [][\A k \in Stepping :
          (k <= Len(cmds) /\ cmds[k].pc = "write" /\ cmds'[k].wrote = "failed") =>
              /\ cmds'[k].attempts = 3
              /\ ~Replied(cmds'[k], "SavedSuccessfully")
              /\ Replied(cmds'[k], "FetchError") \/ Replied(cmds'[k], "ProcessingError")
              /\ proc' = proc]_vars

\* two saves of different channels whose writes both went through, k1 called before k2
TwoSaves(k1, k2) ==
    /\ cmds[k1].wrote = "ok" /\ cmds[k2].wrote = "ok"
    /\ cmds[k1].target # cmds[k2].target
    /\ cmds[k1].call < cmds[k2].call

\* the document lacks a record the index holds
UpdateLost == ~(RecordsOf(urls) \subseteq RecordsOf(storageFile.doc))

\* C26: two saves of different channels whose writes overlap can leave the document
\* without one channel's update.  The document is then the text of the write that came back
\* last, and that text was made before the other call's update: it is the text of the call
\* made first, which every text made later contains.  Once a write went through, the
\* document is always the whole text of one call.
C26_LastWriterSnapshotWins ==
    /\ \A k1, k2 \in 1..Len(cmds) :
          (isInitialized /\ 0 < cmds[k1].call /\ cmds[k1].call < cmds[k2].call) =>
              RecordsOf(cmds[k1].snapshot) \subseteq RecordsOf(cmds[k2].snapshot)
    /\ (\E k \in 1..Len(cmds) : cmds[k].wrote = "ok") =>
          \E k \in 1..Len(cmds) :
              cmds[k].wrote = "ok"
                  /\ storageFile = [state |-> "valid", doc |-> cmds[k].snapshot]
    /\ (UpdateLost /\ \A k \in 1..Len(cmds) : cmds[k].call > 0 => cmds[k].wrote = "ok") =>
          \E k1, k2 \in 1..Len(cmds) :
              /\ cmds[k1].wrote = "ok" /\ cmds[k2].wrote = "ok"
              /\ cmds[k1].call < cmds[k2].call
              /\ storageFile.doc = cmds[k1].snapshot
              /\ \E e \in RecordsOf(cmds[k2].snapshot) :
                    e[1] = cmds[k2].target /\ e \notin RecordsOf(storageFile.doc)

\* both writes went through and the document lacks the update of the call made second
C26_Witness ==
    \E k1, k2 \in 1..Len(cmds) :
        /\ TwoSaves(k1, k2)
        /\ UpdateLost
        /\ cmds[k1].pc = "done" /\ cmds[k2].pc = "done"
        /\ \E e \in RecordsOf(urls) : e[1] = cmds[k2].target /\ e \notin RecordsOf(storageFile.doc)
        /\ \E e \in RecordsOf(storageFile.doc) : e[1] = cmds[k1].target

\* C27 as stated: an uncaught exception and an unhandled rejection both end the process:
\* once either has occurred the process has exited and serves no further message event.
C27_FatalErrorsTerminate ==
    (proc.uncaughtException \/ proc.unhandledRejection) => proc.state = "exited"

\* C27, amended: an uncaught exception ends the process, which then serves nothing more; an
\* unhandled rejection is logged and the process goes on as it was.
C27_OnlyExceptionTerminates ==
    /\ [](proc.uncaughtException => proc.state = "exited")
    /\ [][proc.state = "exited" =>
             /\ proc' = proc /\ cmds' = cmds /\ messages' = messages
             /\ urls' = urls /\ storageFile' = storageFile]_vars
    /\ [][(proc'.unhandledRejection /\ ~proc.unhandledRejection) =>
             proc'.state = proc.state]_vars

\* a process that went on after an unhandled rejection has exited on an uncaught exception,
\* leaving a command whose write was under way
C27_Witness ==
    /\ proc.unhandledRejection
    /\ proc.uncaughtException
    /\ proc.state = "exited"
    /\ \E k \in 1..Len(cmds) : cmds[k].pc = "write"

\* C28: a "!fetch links" command whose number of words is not 3 gets exactly one usage
\* reply and changes nothing: the index, the document, the rate-limit map and the thread
\* name cache are as before, and no channel is fetched, then or later.
C28_UsageErrorChangesNothing ==
    [][\A k \in Stepping :
          cmds'[k].argc # 3 =>
              /\ k > Len(cmds)
              /\ cmds'[k].pc = "done"
              /\ ~cmds'[k].fetched
              /\ cmds'[k].replies[1] = "Usage"
              /\ Cardinality({p \in 1..Len(cmds'[k].replies) : cmds'[k].replies[p] = "Usage"}) = 1
              /\ urls' = urls /\ isInitialized' = isInitialized
              /\ storageFile' = storageFile
              /\ rateLimitMap' = rateLimitMap
              /\ threadNameCache' = threadNameCache]_vars

\* a command with one word too many, naming a channel that holds a message with a link, was
\* answered with the usage text alone, and the store holds nothing of that channel
C28_Witness ==
    \E k \in 1..Len(cmds) :
        /\ cmds[k].argc = 4
        /\ cmds[k].target = "c1"
        /\ cmds[k].replies = <<"Usage">>
        /\ ~cmds[k].fetched
        /\ isInitialized
        /\ \E m \in 1..Len(messages) : messages[m].channel = "c1" /\ messages[m].exists
        /\ ~MapHas(urls, "c1")

\* the store was initialized at startup from a missing document, in a data directory that
\* was there or could be made
StartedWithoutDocument == proc.document = "absent" /\ proc.mkdirOk

\* C30: when the document does not exist at startup, the initialization of the store
\* succeeds with an empty index; the store can then be used: a save that goes through
\* leaves the records in the document, and a lookup finds every record of the index; and a
\* failed initialization is never due to the missing document (it takes a data directory
\* that cannot be made, or a document that does not parse).
C30_AbsentDocumentIsEmptyIndex ==
    /\ [][(proc.state = "starting" /\ proc'.document = "absent" /\ proc'.mkdirOk) =>
             isInitialized' /\ urls' = <<>>]_vars
    /\ []((proc.document # "unread" /\ ~isInitialized) =>
             ~proc.mkdirOk \/ proc.document = "corrupt")
    /\ [](StartedWithoutDocument =>
             /\ isInitialized
             /\ \A e \in RecordsOf(urls) : findUrlHistory(isInitialized, urls, e[2].url) # <<>>
             /\ \A k \in 1..Len(cmds) :
                   /\ (cmds[k].call > 0 /\ cmds[k].count > 0) =>
                          MapGet(urls, cmds[k].target) # <<>>
                   /\ cmds[k].wrote = "ok" =>
                          /\ storageFile.state = "valid"
                          /\ \E j \in 1..Len(cmds) :
                                cmds[j].wrote = "ok" /\ storageFile.doc = cmds[j].snapshot)

\* a store started without a document holds a record a command saved, the document holds
\* it too, and the lookup finds it
C30_Witness ==
    /\ StartedWithoutDocument
    /\ proc.state = "serving"
    /\ \E k \in 1..Len(cmds) : cmds[k].wrote = "ok" /\ cmds[k].count > 0
    /\ storageFile = [state |-> "valid", doc |-> urls]
    /\ findUrlHistory(isInitialized, urls, U1) # <<>>

(***************************************************************************)
(* Retention.                                                              *)
(***************************************************************************)
\* the positions of the records of a list that are younger than the window
Young(list) == {i \in 1..Len(list) : now - list[i].timestamp < maxAge}

\* a sweep made now leaves, in every channel, the records younger than the window, as they
\* are and in their order, and no other record
SweepIsExact ==
    /\ Len(cleanup(urls, now)) = Len(urls)
    /\ \A j \in 1..Len(urls) :
          /\ cleanup(urls, now)[j].id = urls[j].id
          /\ cleanup(urls, now)[j].list
                 = [k \in 1..Cardinality(Young(urls[j].list)) |->
                       urls[j].list[Kth(Young(urls[j].list), k)]]

\* C29 as stated: a sweep removes the records older than the window and keeps the younger
\* ones unchanged, and the sweep runs periodically: with a period shorter than a tick of
\* this clock, no record older than the window is in the store.
C29_SweptPeriodically ==
    /\ SweepIsExact
    /\ \A e \in RecordsOf(urls) : now - e[2].timestamp <= maxAge

\* C29, amended: a sweep, when it is made, removes the records older than the window and
\* keeps the younger ones unchanged; the bot makes none, and no record ever leaves its
\* store.
C29_SweepExactButNeverRun ==
    /\ []SweepIsExact
    /\ [][RecordsOf(urls) \subseteq RecordsOf(urls')]_vars

\* the store holds a record older than the window beside a younger one; a sweep would drop
\* the one and keep the other
C29_Witness ==
    \E j \in 1..Len(urls) :
        /\ Len(urls[j].list) = 2
        /\ now - urls[j].list[2].timestamp > maxAge
        /\ now - urls[j].list[1].timestamp < maxAge
        /\ cleanup(urls, now)[j].list = <<urls[j].list[1]>>

(***************************************************************************)
(* The order of a channel's list.                                          *)
(***************************************************************************)
StoreChannels == Threads \cup {MAIN_CHANNEL_ID}

IsPrefix(old, new) == Len(old) <= Len(new) /\ SubSeq(new, 1, Len(old)) = old

\* the records of the list at the given positions, in their order
Restricted(list, S) == [k \in 1..Cardinality(S) |-> list[Kth(S, k)]]

\* old is what is left of new when some of its records are taken out
KeepsOrder(old, new) == \E S \in SUBSET (1..Len(new)) : Restricted(new, S) = old

NewestFirst(list) ==
    \A p, q \in 1..Len(list) : p < q => list[p].timestamp >= list[q].timestamp

Entered == messages'[Len(messages')]

\* the delayed check of a message starts no earlier than the window after its arrival, and
\* goes on to the links only when the message is in place
FiresAfterWindow ==
    \A k \in 1..Len(messages) :
        /\ (messages[k].pc = "timer" /\ messages'[k].pc # "timer") =>
               now >= messages[k].createdTimestamp + URL_CHECK_TIMEOUT
        /\ (messages[k].pc = "timer" /\ messages'[k].pc = "loop") => messages[k].exists

\* C32 as stated: a message with links that the router finds legal (right thread for the
\* tier, ignored role, or no tier role) gets a delayed check of its links, which starts
\* after the window.
C32_LegalIsChecked ==
    [][/\ \A h \in 1..MaxHandlers :
             (Routes(h) /\ routing'[h].decision \in {"Allowed", "Ignored", "NoRole"}) =>
                 /\ Len(messages') = Len(messages) + 1
                 /\ Entered.post = routing[h].id
                 /\ Entered.pc = "timer"
       /\ FiresAfterWindow]_vars

\* C32, amended: a message with links gets a delayed check exactly when it is in the right
\* thread for its author's highest tier and its author is neither rate-limited nor holds an
\* ignored role; the messages of members with an ignored role or with no tier role get
\* none.  The check starts after the window and goes on to the links only when the message
\* is in place.
C32_OnlyRightThreadIsChecked ==
    [][/\ \A h \in 1..MaxHandlers :
             Routes(h) =>
                 /\ Len(messages') = Len(messages) + 1
                 /\ Entered.post = routing[h].id
                 /\ Entered.urls # <<>>
                 /\ (Entered.pc = "timer") <=>
                        /\ HeldTiers(routing[h].roles) # {}
                        /\ routing[h].channel = THREAD_ID[HighestTier(routing[h].roles)]
                        /\ routing[h].roles \cap ignoredRoles = {}
                        /\ ~routing'[h].limited
                 /\ Entered.pc # "timer" => Entered.pc = "unscheduled"
       /\ \A k \in 1..Len(messages) :
             messages[k].pc = "unscheduled" =>
                 messages'[k] = [messages[k] EXCEPT !.exists = messages'[k].exists]
       /\ FiresAfterWindow]_vars

\* the links of a message in its right thread went through the check and are stored, and
\* the message of a member with an ignored role or no tier role got no check
C32_Witness ==
    \E k, j \in 1..Len(messages) :
        /\ messages[k].result = "returned"
        /\ MapHas(urls, messages[k].channel)
        /\ messages[j].pc = "unscheduled"
        /\ messages[j].author \in {"C", "D"}

\* message k was rate-limited or found in the wrong thread
Refused(k) == messages[k].decision \in {"RateLimited", "Misrouted"}

\* the delayed check has never touched message k
NeverChecked(k) ==
    /\ messages[k].pc = "unscheduled"
    /\ messages[k].out = <<>>
    /\ messages[k].replies = <<>>
    /\ messages[k].sent = <<>>
    /\ messages[k].urlsToStore = <<>>

\* C37 as stated: a message that was rate-limited or found misrouted never has a delayed
\* check: its links are never classified, never warned about and never stored.
C37_RefusedIsNeverPersisted ==
    \A k \in 1..Len(messages) :
        Refused(k) =>
            /\ NeverChecked(k)
            /\ \A e \in RecordsOf(urls) : e[2].messageId # k

\* C37, amended: a message that was rate-limited or found misrouted never has a delayed
\* check: its links are never classified and never warned about, and no check stores them;
\* a record of such a message is one a "!fetch links" command made for the channel it
\* scanned.
C37_RefusedIsNeverChecked ==
    \A k \in 1..Len(messages) :
        Refused(k) =>
            /\ NeverChecked(k)
            /\ \A e \in RecordsOf(urls) :
                  e[2].messageId = k =>
                      /\ commands > 0
                      /\ e[2] = ChannelRecord(e[2].url, messages[k], k)
                      /\ e[1] = messages[k].channel

\* a rate-limited message got no check, the check of the same author's other message has
\* ended, and a command has stored the link of the rate-limited one
C37_Witness ==
    \E k, j \in 1..Len(messages) :
        /\ messages[k].decision = "RateLimited"
        /\ NeverChecked(k)
        /\ messages[j].author = messages[k].author
        /\ messages[j].pc = "done"
        /\ \E e \in RecordsOf(urls) : e[2].messageId = k

\* C33: the links of one message are looked up in the stored history one after the other
\* and never compared with each other: a link the lookup does not find is classified as new
\* and staged, without a reply, whatever was staged before it in the same batch.
C33_NotCrossChecked ==
    [][\A k \in 1..Len(messages) :
          Classified(k) /\ Looked(k) = <<>> =>
              /\ Decided(k) = "AcceptNew"
              /\ messages'[k].urlsToStore =
                    Append(messages[k].urlsToStore,
                           NewUrlRecord(messages[k].urls[messages[k].i], messages[k], k))
              /\ messages'[k].replies = messages[k].replies]_vars

\* a message that carries one link twice has both occurrences classified as new and staged,
\* and no reply was sent
C33_Witness ==
    \E k \in 1..Len(messages) :
        /\ Len(messages[k].urls) = 2
        /\ messages[k].urls[1] = messages[k].urls[2]
        /\ messages[k].out = <<"AcceptNew", "AcceptNew">>
        /\ Len(messages[k].urlsToStore) = 2
        /\ messages[k].urlsToStore[1].url = messages[k].urlsToStore[2].url
        /\ messages[k].replies = <<>>

\* the step hands message k to handleUrlMessage, which rejects the batch
Rejects(k) ==
    /\ messages[k].pc = "timer"
    /\ messages'[k].pc = "done"
    /\ messages'[k].result # "skipped"

\* C34: every classification that ends in a warning, and the rejection of a batch, calls
\* for exactly one reply to the source message, and an accepting classification calls for
\* none.
C34_OneReplyPerWarning ==
    [][\A k \in 1..Len(messages) :
          IF Classified(k)
          THEN messages'[k].sent = IF Decided(k) \in Warnings
                                   THEN Append(messages[k].sent, Decided(k))
                                   ELSE messages[k].sent
          ELSE IF Rejects(k) THEN messages'[k].sent = Append(messages[k].sent, "Rejected")
          ELSE messages'[k].sent = messages[k].sent]_vars

\* one message was warned about with one reply after a link of it was accepted without one,
\* and another was rejected with one reply
C34_Witness ==
    \E k, j \in 1..Len(messages) :
        /\ Len(messages[k].out) = 2
        /\ messages[k].out[1] = "AcceptNew"
        /\ messages[k].out[2] \in Warnings
        /\ messages[k].sent = <<messages[k].out[2]>>
        /\ messages[j].result = "rejected"
        /\ messages[j].sent = <<"Rejected">>

\* the step ends the check of message k in the catch block of handleUrlMessage
Throws(k) == messages[k].result # "error" /\ messages'[k].result = "error"

\* the records of index m that have the form handleUrlMessage writes for message k; a
\* scan of the forum by "!fetch links" writes records of the same form
RecordsFor(m, k) ==
    {e[2] : e \in {x \in RecordsOf(m) : x[2] = NewUrlRecord(x[2].url, messages[k], k)}}

\* no record of the index has that form
NothingPersisted(k) == RecordsFor(urls, k) = {}

\* C35: when a step of handleUrlMessage throws, the call returns an empty list and none of
\* the message's links is stored, the ones classified as new before the throw included:
\* the throw ends the check and leaves the index as it is, the index holds no record of the
\* message as long as no command has scanned it, and later only a command adds one.
C35_ThrowPersistsNothing ==
    /\ [](\A k \in 1..Len(messages) :
             messages[k].result = "error" /\ commands = 0 => NothingPersisted(k))
    /\ [][\A k \in 1..Len(messages) :
             /\ Throws(k) => urls' = urls /\ messages'[k].pc = "done"
             /\ messages'[k].result = "error" /\ RecordsFor(urls', k) # RecordsFor(urls, k)
                   => commands' > commands]_vars

\* the first link of a message was classified as new and staged, the purge for the second
\* one threw, and the index holds no record of the message
C35_Witness ==
    \E k \in 1..Len(messages) :
        /\ isInitialized
        /\ messages[k].out = <<"AcceptNew", "AcceptNewAfterPurge">>
        /\ Len(messages[k].urlsToStore) = 1
        /\ messages[k].result = "error"
        /\ NothingPersisted(k)
        /\ urls # <<>>

\* the channels whose lists hold a record of the URL
ChannelsOf(m, url) == {e[1] : e \in {x \in RecordsOf(m) : x[2].url = url}}

\* C36 as stated: with every record written by handleUrlMessage, no URL is held by the
\* lists of two channels, also when the checks of two messages with the same new URL
\* interleave.
C36_OneChannelPerUrl ==
    \A url \in {U1, U2} : Cardinality(ChannelsOf(urls, url)) <= 1

\* the step is a fetch of checkMessageExists for message k
Fetches(k) == messages'[k].fetches = messages[k].fetches + 1

\* checkMessageExists has answered for message k: true went on to handleUrlMessage, false
\* ended the check as skipped
Answered(m) == m.pc \notin {"timer", "retry"}

\* C38: checkMessageExists ends with an answer after at most MAX_FETCH_RETRIES + 1 = 4
\* fetches of the message: it fetches again only after an error with the code
\* NETWORK_ERROR, answers false at once after any other error, and answers false when the
\* fourth fetch fails, also for a message that is still there.
C38_BoundedRetries ==
    /\ [](\A k \in 1..Len(messages) :
             /\ messages[k].fetches <= MAX_FETCH_RETRIES + 1
             /\ messages[k].fetches = MAX_FETCH_RETRIES + 1 => Answered(messages[k])
             /\ messages[k].pc = "retry" => messages[k].fetches = messages[k].retries)
    /\ [][\A k \in 1..Len(messages) :
             Fetches(k) =>
                /\ ~Answered(messages'[k]) <=>
                      messages'[k].error = "NETWORK_ERROR" /\ messages[k].retries < MAX_FETCH_RETRIES
                /\ messages'[k].error = "ok" <=>
                      Answered(messages'[k]) /\ messages'[k].result # "skipped"
                /\ messages'[k].error = "UNKNOWN_MESSAGE" => messages'[k].result = "skipped"]_vars

\* a message that is still there is treated as removed after four fetches failed with
\* NETWORK_ERROR
C38_Witness ==
    \E k \in 1..Len(messages) :
        /\ messages[k].exists
        /\ messages[k].fetches = MAX_FETCH_RETRIES + 1
        /\ messages[k].retries = MAX_FETCH_RETRIES
        /\ messages[k].error = "NETWORK_ERROR"
        /\ messages[k].result = "skipped"
        /\ messages[k].out = <<>>

\* the links of the text message k arrived with
Arrived(k) == messages[k].urls

\* C39: the links a delayed check classifies are the links extracted from the text the
\* message arrived with: an edit between arrival and firing changes none of them, the check
\* classifies them in their order and stages the ones it accepts, whatever the text of the
\* message is by then.  Looked(k) is the lookup of link i of the arrival text, and no record
\* of these runs has a channelId, so the fetch of an original is never reached.
C39_ClassifiesArrivalLinks ==
    /\ [](\A k \in 1..Len(messages) :
             /\ Arrived(k) \in PostedContents
             /\ Len(messages[k].out) <= Len(Arrived(k))
             /\ \A p \in 1..Len(messages[k].urlsToStore) :
                   \E q \in 1..Len(Arrived(k)) : messages[k].urlsToStore[p].url = Arrived(k)[q])
    /\ [][\A k \in 1..Len(messages) :
             /\ messages'[k].urls = Arrived(k)
             /\ Classified(k) =>
                   /\ Len(messages'[k].out) = messages[k].i
                   /\ Decided(k) = Outcome(Looked(k), messages[k], FALSE, now)
                   /\ Decided(k) = "AcceptNew" =>
                         messages'[k].urlsToStore =
                            Append(messages[k].urlsToStore,
                                   NewUrlRecord(Arrived(k)[messages[k].i], messages[k], k))]_vars

\* the author edited the link out of a message that is still there, and the check has
\* recorded the link all the same
C39_Witness ==
    \E k \in 1..Len(messages) :
        /\ messages[k].exists
        /\ Arrived(k) = <<U1>>
        /\ messages[k].content = <<>>
        /\ messages[k].out = <<"AcceptNew">>
        /\ messages[k].result = "returned"
        /\ \E e \in RecordsOf(urls) : e[2] = NewUrlRecord(U1, messages[k], k)

\* the write of the save that command k called fails in this step
WriteFails(k) == k <= Len(cmds) /\ cmds[k].pc = "write" /\ cmds'[k].wrote = "failed"

\* the records of index m that document d does not hold
NotDurable(m, d) == RecordsOf(m) \ RecordsOf(d.doc)

\* C40: when the write of the document inside saveUrls fails, saveUrls returns without
\* throwing and the index keeps the merged records: the index, the document and the process
\* are as before the failure, the caller goes on to its reply, every record the call merged
\* is in the index, and findUrlHistory finds a record for the URL of each one the document
\* lacks.
C40_FailedWriteKeepsIndex ==
    [][\A k \in Stepping :
          WriteFails(k) =>
              /\ urls' = urls
              /\ storageFile' = storageFile
              /\ proc' = proc
              /\ Replied(cmds'[k], IF cmds[k].count = 0 THEN "NoUrls" ELSE "SavedSuccessfully")
              /\ RecordsOf(cmds[k].snapshot) \subseteq RecordsOf(urls')
              /\ \A e \in NotDurable(cmds[k].snapshot, storageFile') :
                    LET found == findUrlHistory(isInitialized, urls', e[2].url)
                    IN  found # <<>> /\ found[1].url = e[2].url]_vars

\* the write of a save failed: the index holds a record the document lacks, and
\* findUrlHistory returns that record
C40_Witness ==
    \E k \in 1..Len(cmds) :
        /\ cmds[k].pc = "done"
        /\ cmds[k].wrote = "failed"
        /\ Replied(cmds[k], "SavedSuccessfully")
        /\ \E e \in NotDurable(urls, storageFile) :
              findUrlHistory(isInitialized, urls, e[2].url) = <<e[2]>>

====
